---- MODULE Spec2Model ----
(***************************************************************************)
(* Event cache of obsidian-full-calendar: the in-memory index of events,  *)
(* the calendars that back it (the shelve calendar in particular), the    *)
(* mutations that go through the cache, the rescan on a file change and   *)
(* the create/edit modals that drive the mutations; and, each under a     *)
(* specification of its own, direct calls on the shelve calendar and the   *)
(* conversion of an event for rendering (result holds the last such call). *)
(*                                                                         *)
(* An asynchronous call is a task with three positions: its synchronous   *)
(* prefix up to the first await (Start), the vault I/O it awaits taking   *)
(* effect (IOEffect), and its continuation after the await (Resume).      *)
(***************************************************************************)
EXTENDS Integers, Sequences, FiniteSets, TLC

VARIABLES files, store, pathIndex, nextId, task, ops, overlap, failed, last, result, view

vars == <<files, store, pathIndex, nextId, task, ops, overlap, failed, last, result, view>>

(* ---- bounds ---- *)
MaxId == 3
MaxOps == 2
MaxLine == 1
MaxDay == 31

(* ---- the vault ---- *)
PathSeq == <<"p1", "n1">>
Paths == {PathSeq[k] : k \in 1..Len(PathSeq)}
NoteDir == {"n1"}
Titles == {"a", "b"}
Undefined == "undefined"
ShelveProps == {"A", "B", Undefined}
UndefinedLine == -1
NullLocation == [path |-> "null", lineNumber |-> UndefinedLine]

NoFile == [exists |-> FALSE, shelve |-> Undefined, valid |-> FALSE, title |-> ""]

File(shelve, valid, title) ==
    [exists |-> TRUE, shelve |-> shelve, valid |-> valid, title |-> title]

basename(path) == path

(* ---- the registered calendars, in registration order ---- *)
ShelveValue == "A"

identifier(value) == "shelve:" \o value

ShelveId == identifier(ShelveValue)

CalendarSeq == <<ShelveId, "note", "ics">>
CalendarIds == {CalendarSeq[k] : k \in 1..Len(CalendarSeq)}
UnknownCalendar == "nocal"

CalType(c) == IF c = ShelveId THEN "shelve" ELSE IF c = "note" THEN "local" ELSE "ical"

IsEditableCalendar(c) == c \in CalendarIds /\ CalType(c) \in {"shelve", "local"}

(* ---- ShelveCalendar ---- *)
getFileByPath(path) == path \in Paths /\ files[path].exists

containsPathAnyValue(path) == getFileByPath(path)

containsPathTruthy(path) ==
    IF ~getFileByPath(path) THEN FALSE
    ELSE files[path].shelve # Undefined

containsPath(path) ==
    IF ~getFileByPath(path) THEN FALSE
    ELSE files[path].shelve = ShelveValue

validateEvent(file) == file.valid

getEventsInFileNoDefaultTitle(path) ==
    LET file == files[path] IN
    IF file.shelve # ShelveValue THEN <<>>
    ELSE IF ~validateEvent(file) THEN <<>>
    ELSE <<[event |-> [title |-> file.title],
            location |-> [path |-> path, lineNumber |-> UndefinedLine]]>>

getEventsInFile(path) ==
    LET file == files[path] IN
    IF file.shelve # ShelveValue THEN <<>>
    ELSE IF ~validateEvent(file) THEN <<>>
    ELSE <<[event |-> [title |-> IF file.title = "" THEN basename(path) ELSE file.title],
            location |-> [path |-> path, lineNumber |-> UndefinedLine]]>>

RECURSIVE getEventsInFolderRecursive(_)
getEventsInFolderRecursive(k) ==
    IF k > Len(PathSeq) THEN <<>>
    ELSE (IF files[PathSeq[k]].exists THEN getEventsInFile(PathSeq[k]) ELSE <<>>)
         \o getEventsInFolderRecursive(k + 1)

getEvents == getEventsInFolderRecursive(1)

createEventSucceeds(event) ==
    [throws |-> FALSE, err |-> "",
     location |-> [path |-> "p1", lineNumber |-> UndefinedLine]]

createEvent(event) ==
    [throws |-> TRUE, err |-> "ShelveCreateUnsupported", location |-> NullLocation]

getNewLocation(location, event) ==
    IF location.lineNumber # UndefinedLine
    THEN [throws |-> TRUE, err |-> "ShelveInline", location |-> NullLocation]
    ELSE [throws |-> FALSE, err |-> "",
          location |-> [path |-> location.path, lineNumber |-> UndefinedLine]]

modifyEventPrefix(location) ==
    IF ~getFileByPath(location.path)
    THEN [throws |-> TRUE, err |-> "FileMissing"]
    ELSE [throws |-> FALSE, err |-> ""]

modifyEventCallbacksAlways(location, rewriteOk) ==
    <<[path |-> location.path, lineNumber |-> UndefinedLine]>>

modifyEventCallbacksTwice(location, rewriteOk) ==
    IF rewriteOk
    THEN <<[path |-> location.path, lineNumber |-> UndefinedLine],
           [path |-> location.path, lineNumber |-> UndefinedLine]>>
    ELSE <<>>

modifyEventCallbacksLine(location, rewriteOk) ==
    IF rewriteOk THEN <<[path |-> location.path, lineNumber |-> 0]>> ELSE <<>>

modifyEventCallbacks(location, rewriteOk) ==
    IF rewriteOk
    THEN <<[path |-> location.path, lineNumber |-> UndefinedLine]>>
    ELSE <<>>

moveSilent(fromLocation, toCalendar) ==
    [throws |-> FALSE, err |-> "", callbacks |-> <<>>]

move(fromLocation, toCalendar) ==
    [throws |-> TRUE, err |-> "ShelveMoveUnsupported", callbacks |-> <<>>]

deleteEventPrefixNoLineCheck(location) ==
    IF ~getFileByPath(location.path)
    THEN [throws |-> TRUE, err |-> "FileNotFound"]
    ELSE [throws |-> FALSE, err |-> ""]

deleteEventPrefix(location) ==
    IF location.lineNumber # UndefinedLine
    THEN [throws |-> TRUE, err |-> "ShelveInline"]
    ELSE IF ~getFileByPath(location.path)
    THEN [throws |-> TRUE, err |-> "FileNotFound"]
    ELSE [throws |-> FALSE, err |-> ""]

deleteEventResolvesAlways(deleteOk) == TRUE

deleteEventResolves(deleteOk) == deleteOk

(* ---- the local note calendar and the remote calendar ---- *)
NoteLocation == [path |-> "n1", lineNumber |-> UndefinedLine]

NoteContainsPath(path) == path \in NoteDir

NoteGetEventsInFile(path) ==
    LET file == files[path] IN
    IF ~(path \in NoteDir /\ file.exists /\ validateEvent(file)) THEN <<>>
    ELSE <<[event |-> [title |-> IF file.title = "" THEN basename(path) ELSE file.title],
            location |-> [path |-> path, lineNumber |-> UndefinedLine]]>>

NoteCreateEvent(event) ==
    IF getFileByPath(NoteLocation.path)
    THEN [throws |-> TRUE, err |-> "FileExists", location |-> NullLocation]
    ELSE [throws |-> FALSE, err |-> "", location |-> NoteLocation]

NoteGetNewLocation(location, event) ==
    [throws |-> FALSE, err |-> "", location |-> NoteLocation]

NotePrefix(location) ==
    IF ~getFileByPath(location.path)
    THEN [throws |-> TRUE, err |-> "FileMissing"]
    ELSE [throws |-> FALSE, err |-> ""]

RemoteEvents == <<[event |-> [title |-> "r"], location |-> NullLocation]>>

(* ---- dispatch on the calendar's variant ---- *)
CalContainsPath(c, path) ==
    CASE CalType(c) = "shelve" -> containsPath(path)
      [] CalType(c) = "local" -> NoteContainsPath(path)
      [] OTHER -> FALSE

CalGetEventsInFile(c, path) ==
    CASE CalType(c) = "shelve" -> getEventsInFile(path)
      [] CalType(c) = "local" -> NoteGetEventsInFile(path)
      [] OTHER -> <<>>

CalGetEvents(c) ==
    CASE CalType(c) = "shelve" -> getEvents
      [] CalType(c) = "local" -> NoteGetEventsInFile("n1")
      [] OTHER -> RemoteEvents

CalCreateEvent(c, event) ==
    IF CalType(c) = "shelve" THEN createEvent(event) ELSE NoteCreateEvent(event)

CalGetNewLocation(c, location, event) ==
    IF CalType(c) = "shelve" THEN getNewLocation(location, event)
    ELSE NoteGetNewLocation(location, event)

CalModifyEventPrefix(c, location) ==
    IF CalType(c) = "shelve" THEN modifyEventPrefix(location) ELSE NotePrefix(location)

CalModifyEventCallbacks(c, location, rewriteOk) ==
    IF CalType(c) = "shelve" THEN modifyEventCallbacks(location, rewriteOk)
    ELSE IF rewriteOk THEN <<location>> ELSE <<>>

CalMove(c, fromLocation, toCalendar, newLocation) ==
    IF CalType(c) = "shelve" THEN move(fromLocation, toCalendar)
    ELSE IF ~getFileByPath(fromLocation.path)
    THEN [throws |-> TRUE, err |-> "FileMissing", callbacks |-> <<>>]
    ELSE [throws |-> FALSE, err |-> "", callbacks |-> <<newLocation>>]

CalDeleteEventPrefix(c, location) ==
    IF CalType(c) = "shelve" THEN deleteEventPrefix(location) ELSE NotePrefix(location)

CalDeleteEventResolves(c, deleteOk) ==
    IF CalType(c) = "shelve" THEN deleteEventResolves(deleteOk) ELSE deleteOk

(* ---- the index: id -> entry and path -> ids ---- *)
NoEntry == [event |-> [title |-> ""], calendarId |-> "", location |-> NullLocation]

EntryOf(st, id) == IF id \in DOMAIN st THEN st[id] ELSE NoEntry

StoreAdd(st, id, entry) == [i \in DOMAIN st \cup {id} |-> IF i = id THEN entry ELSE st[i]]

StoreDelete(st, id) == [i \in DOMAIN st \ {id} |-> st[i]]

IndexAdd(pi, id, location) ==
    [p \in Paths |-> IF p = location.path THEN pi[p] \cup {id} ELSE pi[p] \ {id}]

IndexDeleteNone(pi, id) == pi

IndexDelete(pi, id) == [p \in Paths |-> pi[p] \ {id}]

getEventById(id) == EntryOf(store, id).event

HasEvent(id) == id \in DOMAIN store

getInfoForEditableEvent(id) ==
    IF ~HasEvent(id) THEN [throws |-> TRUE, err |-> "NotFound", calendar |-> "", location |-> NullLocation]
    ELSE IF ~IsEditableCalendar(store[id].calendarId) \/ store[id].location = NullLocation
    THEN [throws |-> TRUE, err |-> "UnsupportedOperation", calendar |-> "", location |-> NullLocation]
    ELSE [throws |-> FALSE, err |-> "", calendar |-> store[id].calendarId,
          location |-> store[id].location]

getAllEvents == [c \in CalendarIds |-> {i \in DOMAIN store : store[i].calendarId = c}]

(* ---- id assignment: the counter after n fresh ids were handed out ---- *)
NextFreeIdStuck(next, n) == next

NextFreeId(next, n) == next + n

(* ---- the initial full scan ---- *)
RECURSIVE ScanFrom(_)
ScanFrom(k) ==
    IF k > Len(CalendarSeq) THEN <<>>
    ELSE [j \in 1..Len(CalGetEvents(CalendarSeq[k])) |->
            [event |-> CalGetEvents(CalendarSeq[k])[j].event,
             calendarId |-> CalendarSeq[k],
             location |-> CalGetEvents(CalendarSeq[k])[j].location]]
         \o ScanFrom(k + 1)

(* ---- tasks: one asynchronous call each ---- *)
Tasks == {"t1", "t2"}
Events == {[title |-> ti] : ti \in Titles}
Ids == 1..MaxId

IdleTask ==
    [pc |-> "idle", op |-> "none", via |-> "", id |-> 0, cal |-> "", src |-> "",
     event |-> [title |-> ""], data |-> [title |-> ""], loc |-> NullLocation,
     io |-> "none", ioOk |-> FALSE, stage |-> "none", wrote |-> FALSE]

NoStep ==
    [op |-> "none", phase |-> "init", via |-> "", id |-> 0, cal |-> "",
     event |-> [title |-> ""], path |-> "", ok |-> FALSE, err |-> "",
     backingFailed |-> FALSE, changed |-> FALSE, callbacks |-> 0,
     entryBefore |-> NoEntry, wrote |-> FALSE, nextIdBefore |-> 0]

NoResult == [op |-> "none", input |-> <<>>, output |-> <<>>]

(* The linear view: whether it is displayed, its component state, the globals
   on window it reads and writes, where the left button went down (0: it is
   up, Outside: not on a day cell) and the select calls the last mouse event
   made on the calendar. A date is a day of January 2024, NoDay is null. *)
NoDay == 0
Outside == -1
NoFilter == [type |-> "", values |-> <<>>]
NoPreview == [eventId |-> "", targetDate |-> NoDay, sourceDate |-> NoDay]

constructor(savedFilter) ==
    [draggedEventId |-> "",
     draggedEventOriginalDate |-> NoDay,
     dragOverDate |-> NoDay,
     selectionStart |-> NoDay,
     selectionCurrent |-> NoDay,
     isSelecting |-> FALSE,
     dragPreview |-> NoPreview,
     filterType |-> IF savedFilter.type # "" THEN savedFilter.type ELSE "folder",
     filters |-> savedFilter.values]

ViewEventIds == {"e1", "e2"}
WindowChoices ==
    {[fc |-> TRUE, fcEvents |-> ViewEventIds, fcModifyEvent |-> TRUE],
     [fc |-> TRUE, fcEvents |-> {"e1"}, fcModifyEvent |-> FALSE],
     [fc |-> FALSE, fcEvents |-> {}, fcModifyEvent |-> TRUE]}

NoView ==
    [fc |-> FALSE,
     fcEvents |-> {},
     fcModifyEvent |-> FALSE,
     mounted |-> FALSE,
     state |-> constructor(NoFilter),
     linearViewActiveFilter |-> NoFilter,
     linearViewFilterState |-> NoFilter,
     down |-> 0, calls |-> <<>>]

InitialViews ==
    {[NoView EXCEPT !.fc = w.fc, !.fcEvents = w.fcEvents,
                    !.fcModifyEvent = w.fcModifyEvent] : w \in WindowChoices}

AllIdle == \A t \in Tasks : task[t].pc = "idle"

InFlightAdds == Cardinality({t \in Tasks : task[t].pc # "idle" /\ task[t].op = "add"})

InitialVaults ==
    {[p \in Paths |-> IF p = "p1" THEN File(ShelveValue, TRUE, "a") ELSE f] :
        f \in {NoFile, File(Undefined, TRUE, "b")}}

InitCache ==
    /\ files \in InitialVaults
    /\ store = ScanFrom(1)
    /\ pathIndex = [p \in Paths |-> {i \in DOMAIN store : store[i].location.path = p}]
    /\ nextId = NextFreeId(1, Len(store))
    /\ task = [t \in Tasks |-> IdleTask]
    /\ ops = 0
    /\ overlap = FALSE
    /\ failed = FALSE
    /\ last = NoStep
    /\ result = NoResult

Init == InitCache /\ view = NoView

InitView == InitCache /\ view \in InitialViews

(* A call that ends in its synchronous prefix: nothing was written. *)
Fail(t, op, via, id, cal, event, err, backing) ==
    /\ last' = [NoStep EXCEPT !.op = op, !.phase = "return", !.via = via, !.id = id,
                              !.cal = cal, !.event = event, !.err = err,
                              !.backingFailed = backing,
                              !.entryBefore = EntryOf(store, id),
                              !.nextIdBefore = nextId]
    /\ ops' = ops + 1
    /\ task' = [task EXCEPT ![t] = IdleTask]
    /\ failed' = TRUE
    /\ UNCHANGED <<files, store, pathIndex, nextId, overlap, result, view>>

(* A call that reaches its first await: the I/O it awaits is now in flight. *)
Await(t, op, via, id, cal, src, event, loc, io, stage, data) ==
    /\ task' = [task EXCEPT ![t] =
                  [pc |-> "io", op |-> op, via |-> via,
                   id |-> id, cal |-> cal,
                   src |-> src, event |-> event, data |-> data, loc |-> loc,
                   io |-> io, ioOk |-> FALSE, stage |-> stage, wrote |-> FALSE]]
    /\ last' = [NoStep EXCEPT !.op = op, !.phase = "start", !.via = via]
    /\ ops' = ops + 1
    /\ overlap' = (overlap \/ ~AllIdle)
    /\ UNCHANGED <<files, store, pathIndex, nextId, failed, result, view>>

(* ---- the cache's mutations, up to the first await ---- *)
addEvent(t, calendarId, event, via) ==
    /\ task[t].pc = "idle"
    /\ ops < MaxOps
    /\ nextId + InFlightAdds <= MaxId
    /\ IF calendarId \notin CalendarIds
       THEN Fail(t, "add", via, 0, calendarId, event, "NotFound", FALSE)
       ELSE IF ~IsEditableCalendar(calendarId)
       THEN Fail(t, "add", via, 0, calendarId, event, "UnsupportedOperation", FALSE)
       ELSE LET r == CalCreateEvent(calendarId, event) IN
            IF r.throws
            THEN Fail(t, "add", via, 0, calendarId, event, r.err, TRUE)
            ELSE Await(t, "add", via, 0, calendarId, calendarId, event, r.location,
                       "create", "create", event)

updateEventWithId(t, id, event, via) ==
    /\ \/ task[t].pc = "idle" /\ ops < MaxOps
       \/ task[t].pc = "chain"
    /\ LET info == getInfoForEditableEvent(id) IN
       IF info.throws
       THEN Fail(t, "update", via, id, "", event, info.err, FALSE)
       ELSE LET r == CalModifyEventPrefix(info.calendar, info.location) IN
            IF r.throws
            THEN Fail(t, "update", via, id, info.calendar, event, r.err, TRUE)
            ELSE Await(t, "update", via, id, info.calendar, info.calendar, event,
                       info.location, "rewrite", "modify", event)

deleteEvent(t, id, via) ==
    /\ task[t].pc = "idle"
    /\ ops < MaxOps
    /\ LET info == getInfoForEditableEvent(id) IN
       IF info.throws
       THEN Fail(t, "delete", via, id, "", getEventById(id), info.err, FALSE)
       ELSE LET r == CalDeleteEventPrefix(info.calendar, info.location) IN
            IF r.throws
            THEN Fail(t, "delete", via, id, info.calendar, getEventById(id), r.err, TRUE)
            ELSE Await(t, "delete", via, id, info.calendar, info.calendar,
                       getEventById(id), info.location, "delete", "delete",
                       getEventById(id))

IsUnsupported(err) == err = "ShelveMoveUnsupported"

(* The index with entry id replaced by what a callback resolved. *)
Replace(idx, id, event, cal, location) ==
    IF id \notin DOMAIN idx.store THEN idx
    ELSE [store |-> [idx.store EXCEPT ![id] =
                        [event |-> event, calendarId |-> cal, location |-> location]],
          pathIndex |-> IndexAdd(idx.pathIndex, id, location)]

RECURSIVE OnLocationResolved(_, _, _, _, _)
OnLocationResolved(idx, id, mode, arg, callbacks) ==
    IF callbacks = <<>> THEN idx
    ELSE LET e == EntryOf(idx.store, id)
             next == IF mode = "update"
                     THEN Replace(idx, id, arg.event, e.calendarId, Head(callbacks))
                     ELSE Replace(idx, id, e.event, arg.cal, Head(callbacks))
         IN OnLocationResolved(next, id, mode, arg, Tail(callbacks))

Index == [store |-> store, pathIndex |-> pathIndex]

CallOf(tk) ==
    [op |-> tk.op, via |-> tk.via, cal |-> tk.cal, event |-> tk.event,
     path |-> tk.loc.path, data |-> tk.data]

(* The submit of the edit modal goes on to its update when the move it awaited
   did not throw. *)
ContinuesAlways(ok, call) == call.op = "move" /\ call.via = "editModal"

Continues(ok, call) == ok /\ call.op = "move" /\ call.via = "editModal"

(* The end of a call: the index as the call leaves it, and what the caller gets. *)
Return(t, call, idx, ok, err, backingFailed, callbacks, id) ==
    /\ failed' = (failed \/ ~ok)
    /\ store' = idx.store
    /\ pathIndex' = idx.pathIndex
    /\ task' = [task EXCEPT ![t] =
                  IF Continues(ok, call)
                  THEN [IdleTask EXCEPT !.pc = "chain", !.id = id, !.data = call.data,
                                        !.via = "editModal"]
                  ELSE IdleTask]
    /\ last' = [NoStep EXCEPT !.op = call.op, !.phase = "return", !.via = call.via,
                              !.id = id, !.cal = call.cal, !.event = call.event,
                              !.path = call.path, !.ok = ok, !.err = err,
                              !.backingFailed = backingFailed,
                              !.changed = (idx # Index), !.callbacks = callbacks,
                              !.entryBefore = EntryOf(store, id),
                              !.wrote = task[t].wrote, !.nextIdBefore = nextId]

moveEventToCalendar(t, id, newCalendarId, via, data) ==
    /\ task[t].pc = "idle"
    /\ ops < MaxOps
    /\ LET info == getInfoForEditableEvent(id)
           event == getEventById(id) IN
       IF info.throws
       THEN Fail(t, "move", via, id, newCalendarId, event, info.err, FALSE)
       ELSE IF newCalendarId \notin CalendarIds
       THEN Fail(t, "move", via, id, newCalendarId, event, "NotFound", FALSE)
       ELSE IF ~IsEditableCalendar(newCalendarId)
       THEN Fail(t, "move", via, id, newCalendarId, event, "UnsupportedOperation", FALSE)
       ELSE LET nl == CalGetNewLocation(newCalendarId, info.location, event) IN
            IF nl.throws
            THEN Fail(t, "move", via, id, newCalendarId, event, nl.err, TRUE)
            ELSE LET m == CalMove(info.calendar, info.location, newCalendarId, nl.location) IN
                 IF ~m.throws /\ CalType(info.calendar) = "local"
                 THEN Await(t, "move", via, id, newCalendarId, info.calendar, event,
                            nl.location, "rename", "move", data)
                 ELSE IF ~m.throws
                 THEN /\ ops' = ops + 1
                      /\ Return(t, [op |-> "move", via |-> via, cal |-> newCalendarId,
                                    event |-> event, path |-> info.location.path,
                                    data |-> data],
                                OnLocationResolved(Index, id, "move",
                                     [cal |-> newCalendarId], m.callbacks),
                                TRUE, "", FALSE, Len(m.callbacks), id)
                      /\ UNCHANGED <<files, nextId, overlap, result, view>>
                 ELSE IF ~IsUnsupported(m.err)
                 THEN Fail(t, "move", via, id, newCalendarId, event, m.err, TRUE)
                 ELSE LET d == CalDeleteEventPrefix(info.calendar, info.location) IN
                      IF d.throws
                      THEN Fail(t, "move", via, id, newCalendarId, event, d.err, TRUE)
                      ELSE Await(t, "move", via, id, newCalendarId, info.calendar, event,
                                 info.location, "delete", "fallbackDelete", data)

(* ---- the vault I/O a call awaits takes effect (or fails) ---- *)
IOPossible(io, path) ==
    IF io = "create" THEN ~files[path].exists ELSE files[path].exists

IOResult(io, path, event) ==
    CASE io = "create" -> File(Undefined, TRUE, event.title)
      [] io = "rewrite" -> [files[path] EXCEPT !.valid = TRUE, !.title = event.title]
      [] io = "delete" -> NoFile
      [] OTHER -> files[path]

IOEffect(t) ==
    /\ task[t].pc = "io"
    /\ LET tk == task[t] IN
       \E ok \in BOOLEAN :
          /\ ok => IOPossible(tk.io, tk.loc.path)
          /\ files' = IF ok
                      THEN [files EXCEPT ![tk.loc.path] = IOResult(tk.io, tk.loc.path, tk.event)]
                      ELSE files
          /\ task' = [task EXCEPT ![t].pc = "resume", ![t].ioOk = ok,
                                   ![t].wrote = (tk.wrote \/ ok)]
          /\ last' = [NoStep EXCEPT !.op = tk.op, !.phase = "io"]
    /\ UNCHANGED <<store, pathIndex, nextId, ops, overlap, failed, result, view>>

(* ---- the continuation of a call after its await ---- *)
Resume(t) ==
    /\ task[t].pc = "resume"
    /\ LET tk == task[t]
           call == CallOf(tk)
           fault == IF tk.ioOk THEN "" ELSE "IOError" IN
       CASE tk.stage = "create" ->
              IF tk.ioOk
              THEN /\ Return(t, call,
                             [store |-> StoreAdd(store, nextId,
                                          [event |-> tk.event, calendarId |-> tk.cal,
                                           location |-> tk.loc]),
                              pathIndex |-> IndexAdd(pathIndex, nextId, tk.loc)],
                             TRUE, "", FALSE, 0, nextId)
                   /\ nextId' = NextFreeId(nextId, 1)
              ELSE /\ Return(t, call, Index, FALSE, fault, TRUE, 0, 0)
                   /\ UNCHANGED nextId
         [] tk.stage = "modify" ->
              LET cbs == CalModifyEventCallbacks(tk.cal, tk.loc, tk.ioOk) IN
              /\ Return(t, call,
                        OnLocationResolved(Index, tk.id, "update", [event |-> tk.event], cbs),
                        tk.ioOk, fault, ~tk.ioOk, Len(cbs), tk.id)
              /\ UNCHANGED nextId
         [] tk.stage = "delete" ->
              /\ IF CalDeleteEventResolves(tk.cal, tk.ioOk)
                 THEN Return(t, call,
                             [store |-> StoreDelete(store, tk.id),
                              pathIndex |-> IndexDelete(pathIndex, tk.id)],
                             TRUE, "", ~tk.ioOk, 0, tk.id)
                 ELSE Return(t, call, Index, FALSE, fault, TRUE, 0, tk.id)
              /\ UNCHANGED nextId
         [] tk.stage = "move" ->
              LET cbs == IF tk.ioOk THEN <<tk.loc>> ELSE <<>> IN
              /\ Return(t, call,
                        OnLocationResolved(Index, tk.id, "move", [cal |-> tk.cal], cbs),
                        tk.ioOk, fault, ~tk.ioOk, Len(cbs), tk.id)
              /\ UNCHANGED nextId
         [] tk.stage = "fallbackDelete" ->
              /\ IF ~CalDeleteEventResolves(tk.src, tk.ioOk)
                 THEN Return(t, call, Index, FALSE, fault, TRUE, 0, tk.id)
                 ELSE LET c == CalCreateEvent(tk.cal, tk.event) IN
                      IF c.throws
                      THEN Return(t, call, Index, FALSE, c.err, TRUE, 0, tk.id)
                      ELSE /\ task' = [task EXCEPT ![t].pc = "io", ![t].io = "create",
                                                   ![t].loc = c.location, ![t].ioOk = FALSE,
                                                   ![t].stage = "fallbackCreate"]
                           /\ last' = [NoStep EXCEPT !.op = "move", !.phase = "continue"]
                           /\ UNCHANGED <<store, pathIndex, failed>>
              /\ UNCHANGED nextId
         [] tk.stage = "fallbackCreate" ->
              /\ IF tk.ioOk
                 THEN Return(t, call,
                             Replace(Index, tk.id, EntryOf(store, tk.id).event, tk.cal, tk.loc),
                             TRUE, "", FALSE, 0, tk.id)
                 ELSE Return(t, call, Index, FALSE, fault, TRUE, 0, tk.id)
              /\ UNCHANGED nextId
    /\ UNCHANGED <<files, ops, overlap, result, view>>

(* ---- a file-change notification: rescan of one path ---- *)
RescanCalendar(c, path, acc) ==
    LET new == CalGetEventsInFile(c, path)
        old == {i \in acc.idx.pathIndex[path] : acc.idx.store[i].calendarId = c}
        Matches(i) == {j \in 1..Len(new) : new[j].location = acc.idx.store[i].location}
        kept == {i \in old : Matches(i) # {}}
        IsNew(n) == \A i \in old : acc.idx.store[i].location # n.location
        added == SelectSeq(new, IsNew)
        ids == old \cup {acc.nextId + j - 1 : j \in 1..Len(added)}
        EntryAfter(i) ==
            IF i \in kept
            THEN LET n == new[CHOOSE j \in Matches(i) : TRUE] IN
                 [event |-> n.event, calendarId |-> c, location |-> n.location]
            ELSE LET n == added[i - acc.nextId + 1] IN
                 [event |-> n.event, calendarId |-> c, location |-> n.location]
        keep == (DOMAIN acc.idx.store \ old) \cup kept \cup (ids \ old)
    IN [idx |-> [store |-> [i \in keep |->
                              IF i \in DOMAIN acc.idx.store /\ i \notin old
                              THEN acc.idx.store[i] ELSE EntryAfter(i)],
                 pathIndex |-> [p \in Paths |->
                              IF p = path
                              THEN (acc.idx.pathIndex[p] \ old) \cup kept \cup (ids \ old)
                              ELSE acc.idx.pathIndex[p]]],
        nextId |-> NextFreeId(acc.nextId, Len(added))]

RECURSIVE Rescan(_, _, _)
Rescan(k, path, acc) ==
    IF k > Len(CalendarSeq) THEN acc
    ELSE Rescan(k + 1, path,
                IF CalContainsPath(CalendarSeq[k], path)
                THEN RescanCalendar(CalendarSeq[k], path, acc) ELSE acc)

FileUpdated(path) ==
    /\ AllIdle
    /\ LET r == Rescan(1, path, [idx |-> Index, nextId |-> nextId]) IN
       /\ r.nextId - 1 <= MaxId
       /\ store' = r.idx.store
       /\ pathIndex' = r.idx.pathIndex
       /\ nextId' = r.nextId
       /\ last' = [NoStep EXCEPT !.op = "fileUpdated", !.phase = "rescan", !.path = path,
                                 !.ok = TRUE, !.changed = (r.idx # Index)]
    /\ UNCHANGED <<files, task, ops, overlap, failed, result, view>>

(* ---- the user edits a file outside the cache ---- *)
EditChoices(path) ==
    IF ~files[path].exists
    THEN {File(ShelveValue, TRUE, "a"), File(Undefined, TRUE, "a")}
    ELSE {NoFile}
         \cup {[files[path] EXCEPT !.shelve = sh] : sh \in ShelveProps}
         \cup {[files[path] EXCEPT !.valid = TRUE, !.title = ti] : ti \in {"", "a"}}
         \cup {[files[path] EXCEPT !.valid = FALSE, !.title = ""]}

ExternalEdit(path) ==
    /\ AllIdle
    /\ ops < MaxOps
    /\ \E f \in EditChoices(path) \ {files[path]} :
          files' = [files EXCEPT ![path] = f]
    /\ ops' = ops + 1
    /\ last' = [NoStep EXCEPT !.op = "edit", !.phase = "edit", !.path = path]
    /\ UNCHANGED <<store, pathIndex, nextId, task, overlap, failed, result, view>>

(* ---- the create and edit modals ---- *)
RECURSIVE ModalCalendarsFrom(_)
ModalCalendarsFrom(k) ==
    IF k > Len(CalendarSeq) THEN <<>>
    ELSE (IF CalType(CalendarSeq[k]) \in {"shelve", "local"}
          THEN <<[id |-> CalendarSeq[k], type |-> CalType(CalendarSeq[k])]>> ELSE <<>>)
         \o ModalCalendarsFrom(k + 1)

calendars == ModalCalendarsFrom(1)

findIndex(calId) ==
    IF \E k \in 1..Len(calendars) : calendars[k].id = calId
    THEN CHOOSE k \in 1..Len(calendars) : calendars[k].id = calId
    ELSE 0

(* The calendar select of the event form: its options are the local and daily
   note calendars, each carrying its position among the options as value. *)
IsSelectable(cal) == cal.type = "local" \/ cal.type = "dailynote"

selectOptions(cals) == SelectSeq(cals, IsSelectable)

optionDisabled(cals, hasTitle, calendarIndex, idx) ==
    ~(~hasTitle \/ cals[calendarIndex].type = selectOptions(cals)[idx].type)

NoOption == [id |-> 0, type |-> "none"]

(* The option a select element shows for its value: the one carrying it. *)
shownOption(cals, calendarIndex) ==
    IF calendarIndex \in 1..Len(selectOptions(cals))
    THEN selectOptions(cals)[calendarIndex] ELSE NoOption

(* The index the form submits: the default, or the value of the option
   picked last. *)
submittedIndex(defaultCalendarIndex, picked) ==
    IF picked = 0 THEN defaultCalendarIndex ELSE picked

launchEditModalUnchecked(eventId) ==
    [throws |-> FALSE, calIdx |-> findIndex(EntryOf(store, eventId).calendarId)]

launchEditModal(eventId) ==
    IF ~HasEvent(eventId) THEN [throws |-> TRUE, calIdx |-> 0]
    ELSE IF getInfoForEditableEvent(eventId).throws THEN [throws |-> TRUE, calIdx |-> 0]
    ELSE [throws |-> FALSE,
          calIdx |-> findIndex(getInfoForEditableEvent(eventId).calendar)]

CanPick(cals, hasTitle, calendarIndex, picked) ==
    picked # 0 =>
        /\ picked <= Len(selectOptions(cals))
        /\ ~optionDisabled(cals, hasTitle, calendarIndex, picked)

CreateModalSubmit(t) ==
    \E data \in Events, picked \in 0..Len(calendars) :
        /\ CanPick(calendars, FALSE, 1, picked)
        /\ addEvent(t, calendars[submittedIndex(1, picked)].id, data, "createModal")

EditModalSubmit(t) ==
    \E eventId \in Ids, data \in Events, picked \in 0..Len(calendars) :
        /\ task[t].pc = "idle"
        /\ ~launchEditModal(eventId).throws
        /\ CanPick(calendars, TRUE, launchEditModal(eventId).calIdx, picked)
        /\ LET calIdx == launchEditModal(eventId).calIdx
               calendarIndex == submittedIndex(calIdx, picked)
           IN IF calendarIndex # calIdx
              THEN moveEventToCalendar(t, eventId, calendars[calendarIndex].id,
                                       "editModal", data)
              ELSE updateEventWithId(t, eventId, data, "editModal")

EditModalContinue(t) ==
    /\ task[t].pc = "chain"
    /\ updateEventWithId(t, task[t].id, task[t].data, "editModal")

EditModalDelete(t) ==
    \E eventId \in Ids :
        /\ ~launchEditModal(eventId).throws
        /\ deleteEvent(t, eventId, "editModal")

(* ---- direct calls on the cache ---- *)
AddEvent(t) ==
    \E calendarId \in CalendarIds \cup {UnknownCalendar}, event \in Events :
        addEvent(t, calendarId, event, "api")

UpdateEventWithId(t) ==
    \E id \in Ids, event \in Events :
        task[t].pc = "idle" /\ updateEventWithId(t, id, event, "api")

MoveEventToCalendar(t) ==
    \E id \in Ids, calendarId \in CalendarIds \cup {UnknownCalendar} :
        moveEventToCalendar(t, id, calendarId, "api", getEventById(id))

DeleteEvent(t) == \E id \in Ids : deleteEvent(t, id, "api")

Call(t) ==
    \/ CreateModalSubmit(t)
    \/ EditModalSubmit(t)
    \/ EditModalContinue(t)
    \/ EditModalDelete(t)
    \/ AddEvent(t)
    \/ UpdateEventWithId(t)
    \/ MoveEventToCalendar(t)
    \/ DeleteEvent(t)
    \/ IOEffect(t)
    \/ Resume(t)

(* One call at a time; files change and are rescanned between calls. *)
Next ==
    \/ Call("t1")
    \/ \E path \in Paths : ExternalEdit(path)
    \/ \E path \in Paths : FileUpdated(path)

Spec == Init /\ [][Next]_vars

(* Calls on the cache interleaved at their awaits; nothing else touches the vault. *)
NextConcurrent ==
    \E t \in Tasks :
        \/ UpdateEventWithId(t)
        \/ MoveEventToCalendar(t)
        \/ DeleteEvent(t)
        \/ IOEffect(t)
        \/ Resume(t)

SpecConcurrent == Init /\ [][NextConcurrent]_vars

(* ---- direct calls on the shelve calendar, on any location ---- *)
Lines == {UndefinedLine} \cup (0..MaxLine)
Locations == {[path |-> p, lineNumber |-> l] : p \in Paths, l \in Lines}

Called(op, location, event, out) ==
    /\ result' = [op |-> op, input |-> [location |-> location, event |-> event],
                  output |-> out]
    /\ UNCHANGED <<store, pathIndex, nextId, task, ops, overlap, failed, last, view>>

ShelveCreateEvent ==
    \E event \in Events :
        LET r == createEvent(event) IN
        /\ UNCHANGED files
        /\ Called("createEvent", NullLocation, event,
                  [throws |-> r.throws, err |-> r.err, location |-> r.location,
                   wrote |-> (files' # files)])

ShelveGetNewLocation ==
    \E location \in Locations, event \in Events :
        LET r == getNewLocation(location, event) IN
        /\ UNCHANGED files
        /\ Called("getNewLocation", location, event,
                  [throws |-> r.throws, err |-> r.err, location |-> r.location,
                   wrote |-> (files' # files)])

ShelveMove ==
    \E fromLocation \in Locations, toCalendar \in {ShelveId, "note"} :
        LET r == move(fromLocation, toCalendar) IN
        /\ UNCHANGED files
        /\ Called("move", fromLocation, [title |-> ""],
                  [throws |-> r.throws, err |-> r.err, location |-> NullLocation,
                   wrote |-> (files' # files)])

ShelveDeleteEvent ==
    \E location \in Locations, deleteOk \in BOOLEAN :
        LET r == deleteEventPrefix(location) IN
        /\ files' = IF ~r.throws /\ deleteOk
                    THEN [files EXCEPT ![location.path] = NoFile] ELSE files
        /\ Called("deleteEvent", location, [title |-> ""],
                  [throws |-> (r.throws \/ ~deleteEventResolves(deleteOk)),
                   err |-> IF r.throws THEN r.err
                           ELSE IF deleteEventResolves(deleteOk) THEN "" ELSE "IOError",
                   location |-> NullLocation,
                   wrote |-> (files' # files)])

ShelveContainsPath ==
    \E path \in Paths :
        /\ UNCHANGED files
        /\ Called("containsPath", [path |-> path, lineNumber |-> UndefinedLine],
                  [title |-> ""], [holds |-> containsPath(path)])

ShelveGetEvents ==
    /\ UNCHANGED files
    /\ Called("getEvents", NullLocation, [title |-> ""], [events |-> getEvents])

NextCalendar ==
    \/ \E path \in Paths : ExternalEdit(path)
    \/ ShelveCreateEvent
    \/ ShelveGetNewLocation
    \/ ShelveMove
    \/ ShelveDeleteEvent
    \/ ShelveContainsPath
    \/ ShelveGetEvents

SpecCalendar == Init /\ [][NextCalendar]_vars

(* ---- conversion of an event for rendering, and its expansion ---- *)
(* A calendar date is its day of January 2024 (1 is Monday 2024-01-01, and
   MaxDay + 1 the day after the last); NoDate is an absent date. *)
NoDate == 0
Dates == 1..MaxDay
DateChoices == {1, 3, 17, MaxDay}
DAYS == <<"U", "M", "T", "W", "R", "F", "S">>
DayChoices == {<<"M", "W">>, <<"U">>, <<"M", "T", "W", "R", "F">>, <<>>}

indexOf(c) ==
    IF \E k \in 1..Len(DAYS) : DAYS[k] = c
    THEN (CHOOSE k \in 1..Len(DAYS) : DAYS[k] = c) - 1
    ELSE -1

getUTCDay(date) == date % 7

Min(a, b) == IF a < b THEN a ELSE b
Max(a, b) == IF a > b THEN a ELSE b

toEventInputRecurring(frontmatter) ==
    [daysOfWeek |-> [k \in 1..Len(frontmatter.daysOfWeek) |->
                        indexOf(frontmatter.daysOfWeek[k])],
     startRecur |-> frontmatter.startRecur,
     endRecur |-> frontmatter.endRecur,
     isTask |-> FALSE]

(* The range of days a view over [from, to] asks for: its end is exclusive. *)
framingRange(from, to) == [start |-> from, end |-> to + 1]

intersectRanges(range, startRecur, endRecur) ==
    [start |-> IF startRecur = NoDate THEN range.start ELSE Max(range.start, startRecur),
     end |-> IF endRecur = NoDate THEN range.end ELSE Min(range.end, endRecur)]

RECURSIVE expandRanges(_, _, _)
expandRanges(daysOfWeek, dayMarker, endMarker) ==
    IF ~(dayMarker < endMarker) THEN <<>>
    ELSE (IF \E k \in 1..Len(daysOfWeek) : daysOfWeek[k] = getUTCDay(dayMarker)
          THEN <<dayMarker>> ELSE <<>>)
         \o expandRanges(daysOfWeek, dayMarker + 1, endMarker)

expandRecurring(typeData, range) ==
    LET clipped == intersectRanges(range, typeData.startRecur, typeData.endRecur)
    IN expandRanges(typeData.daysOfWeek, clipped.start, clipped.end)

Converted(op, input, output) ==
    /\ result = NoResult
    /\ result' = [op |-> op, input |-> input, output |-> output]
    /\ UNCHANGED <<files, store, pathIndex, nextId, task, ops, overlap, failed, last, view>>

ExpandRecurring ==
    \E daysOfWeek \in DayChoices, startRecur, endRecur \in DateChoices \cup {NoDate},
       from, to \in DateChoices :
        /\ from <= to
        /\ LET frontmatter == [type |-> "recurring", daysOfWeek |-> daysOfWeek,
                               startRecur |-> startRecur, endRecur |-> endRecur]
           IN Converted("expandRecurring",
                        [event |-> frontmatter, from |-> from, to |-> to],
                        [dates |-> expandRecurring(toEventInputRecurring(frontmatter),
                                                   framingRange(from, to))])

(* An instant is its number of hours since 2024-01-00T00:00Z; the host's zone
   is offset hours ahead of UTC, so local time is the instant plus offset. *)
HoursPerDay == 24
NoTime == -1
Offsets == {-5, 0, 2}
TimeChoices == {1, 9, 22, NoTime}
Intervals == {1, 2, 7}
SkipChoices == {<<>>, <<3>>, <<3, 5>>, <<4, 3>>}

toJSDate(date, hour, offset) == date * HoursPerDay + hour - offset

timeOfISOString(instant) == instant % HoursPerDay

getHours(instant, offset) == (instant + offset) % HoursPerDay

getDate(instant, offset) == (instant + offset) \div HoursPerDay

NoEventInput == [null |-> TRUE, dtstart |-> 0, interval |-> 0, exdate |-> <<>>]

toEventInputRRule(frontmatter, offset) ==
    IF ~frontmatter.allDay /\ frontmatter.startTime = NoTime THEN NoEventInput
    ELSE LET dtstart == toJSDate(frontmatter.startDate,
                                 IF frontmatter.allDay THEN 0 ELSE frontmatter.startTime,
                                 offset)
         IN [null |-> FALSE,
             dtstart |-> dtstart,
             interval |-> frontmatter.rrule,
             exdate |-> [k \in 1..Len(frontmatter.skipDates) |->
                            [date |-> frontmatter.skipDates[k],
                             time |-> timeOfISOString(dtstart)]]]

(* The instant an exdate string (a date, a time and Z) denotes. *)
parseExdate(exdate) == exdate.date * HoursPerDay + exdate.time

RECURSIVE between(_, _, _, _, _)
between(occurrence, step, after, before, excluded) ==
    IF occurrence > before THEN <<>>
    ELSE (IF occurrence >= after /\ occurrence \notin excluded
          THEN <<occurrence>> ELSE <<>>)
         \o between(occurrence + step, step, after, before, excluded)

expand(errd, fr, offset) ==
    LET hours == getHours(errd.dtstart, offset)
        found == between(errd.dtstart, errd.interval * HoursPerDay,
                         fr.start * HoursPerDay - offset, fr.end * HoursPerDay - offset,
                         {parseExdate(errd.exdate[k]) : k \in 1..Len(errd.exdate)})
    IN [k \in 1..Len(found) |-> [date |-> getDate(found[k], offset), hours |-> hours]]

(* The markers the view keeps: those that start inside the range asked for. *)
clipToRange(markers, fr) ==
    LET Inside(m) == m.date >= fr.start /\ m.date < fr.end
    IN SelectSeq(markers, Inside)

ExpandRRule ==
    \E offset \in Offsets, allDay \in BOOLEAN, startTime \in TimeChoices,
       startDate \in {1, 3}, rrule \in Intervals, skipDates \in SkipChoices,
       from \in {1, 3}, to \in {7, 10} :
        /\ allDay => startTime = NoTime
        /\ LET frontmatter == [type |-> "rrule", allDay |-> allDay, startDate |-> startDate,
                               startTime |-> startTime, rrule |-> rrule,
                               skipDates |-> skipDates]
               event == toEventInputRRule(frontmatter, offset)
           IN Converted("expandRRule",
                        [event |-> frontmatter, offset |-> offset, from |-> from, to |-> to],
                        [null |-> event.null,
                         exdate |-> event.exdate,
                         occurrences |-> IF event.null THEN <<>>
                                         ELSE clipToRange(
                                                  expand(event, framingRange(from, to), offset),
                                                  framingRange(from, to))])

(* ---- a single event: rendered, with its task checkbox, and in the edit form ---- *)
(* A JavaScript value is a string here: "undefined", "null", the booleans
   "true" and "false", and any other string for itself. *)
Null == "null"
Timestamp == "2024-01-01T10:00"
CompletedValues == {Undefined, Null, "false", Timestamp}
CustomKeys == {"isTask", "taskCompleted", "folder"}
CustomValues == {Undefined, "", "yes", "false"}

Truthy(v) == v \notin {Undefined, Null, "false", ""}

getCustomProperties(frontmatter) ==
    [key \in {k \in CustomKeys : frontmatter.custom[k] \notin {Undefined, Null, ""}} |->
        frontmatter.custom[key]]

extendedProps(frontmatter) ==
    LET custom == getCustomProperties(frontmatter) IN
    [isTask |-> IF "isTask" \in DOMAIN custom THEN custom["isTask"]
                ELSE IF frontmatter.completed # Undefined /\ frontmatter.completed # Null
                THEN "true" ELSE "false",
     taskCompleted |-> IF "taskCompleted" \in DOMAIN custom THEN custom["taskCompleted"]
                       ELSE frontmatter.completed]

toEventInputSingle(frontmatter) ==
    IF ~frontmatter.allDay /\ frontmatter.startTime = NoTime
    THEN [null |-> TRUE, extendedProps |-> [isTask |-> "false", taskCompleted |-> Undefined]]
    ELSE [null |-> FALSE, extendedProps |-> extendedProps(frontmatter)]

eventDidMount(event, toggleTask) ==
    IF toggleTask /\ Truthy(event.extendedProps.isTask)
    THEN [checkbox |-> TRUE, checked |-> (event.extendedProps.taskCompleted # "false")]
    ELSE [checkbox |-> FALSE, checked |-> FALSE]

EditEvent(initialEvent) ==
    LET complete == IF initialEvent.type = "single" /\ initialEvent.completed # Null
                       /\ initialEvent.completed # Undefined
                    THEN initialEvent.completed ELSE "false"
        isTask == initialEvent.type = "single" /\ initialEvent.completed # Undefined
                     /\ initialEvent.completed # Null
    IN [isTask |-> isTask,
        taskStatus |-> isTask,
        checked |-> ~(complete = "false" \/ complete = Undefined)]

RenderSingle ==
    \E allDay \in BOOLEAN, startTime \in {9, NoTime}, completed \in CompletedValues,
       custom \in [CustomKeys -> CustomValues] :
        /\ allDay => startTime = NoTime
        /\ LET frontmatter == [type |-> "single", allDay |-> allDay, startTime |-> startTime,
                               completed |-> completed, custom |-> custom]
               event == toEventInputSingle(frontmatter)
           IN Converted("renderSingle", [event |-> frontmatter],
                        [null |-> event.null,
                         extendedProps |-> event.extendedProps,
                         rendered |-> eventDidMount(event, TRUE),
                         form |-> EditEvent(frontmatter)])

(* A single all-day event as the calendar holds it after rendering, and after
   a drag by delta days. *)
DragDeltas == {-2, 1, 3}
NoCustom == [key \in {} |-> Undefined]

SingleFrontmatter ==
    {[title |-> "a", type |-> "single", date |-> date, allDay |-> TRUE,
      startTime |-> NoTime, custom |-> custom, completed |-> completed,
      endDate |-> endDate] :
        date \in {3, 17}, endDate \in {NoDate, 19},
        completed \in CompletedValues, custom \in [CustomKeys -> CustomValues]}

EventApi(frontmatter, delta) ==
    [title |-> frontmatter.title,
     start |-> frontmatter.date + delta,
     end |-> IF frontmatter.endDate = NoDate THEN NoDate ELSE frontmatter.endDate + delta,
     allDay |-> frontmatter.allDay,
     extendedProps |-> toEventInputSingle(frontmatter).extendedProps]

fromEventApi(event) ==
    [title |-> event.title,
     type |-> "single",
     date |-> event.start,
     allDay |-> event.allDay,
     custom |-> NoCustom,
     completed |-> event.extendedProps.taskCompleted,
     endDate |-> IF event.start # event.end THEN event.end ELSE NoDate]

(* handleDrop of the linear view: the event it hands to the modify handler. *)
newEventData(event, daysDiff) ==
    LET oldStart == event.start
        oldEnd == IF event.end # NoDate THEN event.end ELSE oldStart + 1
        duration == oldEnd - oldStart
        newStart == oldStart + daysDiff
        newEnd == newStart + duration
    IN [title |-> event.title,
        type |-> "single",
        date |-> newStart,
        allDay |-> event.allDay,
        custom |-> NoCustom,
        completed |-> Undefined,
        endDate |-> newEnd]

EventDrop ==
    \E frontmatter \in SingleFrontmatter, delta \in DragDeltas :
        Converted("eventDrop", [event |-> frontmatter, delta |-> delta],
                  [event |-> fromEventApi(EventApi(frontmatter, delta))])

LinearDrop ==
    \E frontmatter \in SingleFrontmatter, daysDiff \in DragDeltas :
        Converted("linearDrop", [event |-> frontmatter, delta |-> daysDiff],
                  [event |-> newEventData(EventApi(frontmatter, 0), daysDiff)])

(* The callbacks of the rendered calendar around a handler that resolves to a
   value or rejects. *)
Outcomes == {"true", "false", Undefined, "throws"}

modifyEventCallback(outcome) ==
    IF outcome = "throws" THEN [reverts |-> 0, rejects |-> TRUE]
    ELSE IF ~Truthy(outcome) THEN [reverts |-> 1, rejects |-> FALSE]
    ELSE [reverts |-> 0, rejects |-> FALSE]

(* The click has toggled the checkbox before onclick runs. *)
onclick(checked, outcome) ==
    IF outcome = "throws" THEN [checked |-> checked, rejects |-> TRUE]
    ELSE IF ~Truthy(outcome) THEN [checked |-> ~checked, rejects |-> FALSE]
    ELSE [checked |-> checked, rejects |-> FALSE]

ModifyEventCallback ==
    \E outcome \in Outcomes, kind \in {"eventDrop", "eventResize"} :
        Converted("modifyEventCallback", [outcome |-> outcome, kind |-> kind],
                  modifyEventCallback(outcome))

CheckboxClick ==
    \E before \in BOOLEAN, outcome \in Outcomes :
        Converted("checkboxClick", [checked |-> before, outcome |-> outcome],
                  onclick(~before, outcome))

NextConvert ==
    \/ ExpandRecurring
    \/ ExpandRRule
    \/ RenderSingle
    \/ EventDrop
    \/ LinearDrop
    \/ ModifyEventCallback
    \/ CheckboxClick

SpecConvert == Init /\ [][NextConvert]_vars

(* ---- the event form of the create and edit modals ---- *)
(* A list of editable calendars as a modal hands it to the form: the id of a
   calendar is its position in the registration order; positions count from 1,
   and 0 is the index of nothing (-1 in the code). *)
MaxCalendars == 3
EditableTypes == {"local", "dailynote", "shelve"}
CalendarLists ==
    UNION {[1..n -> [id : 1..MaxCalendars, type : EditableTypes]] : n \in 1..MaxCalendars}
ModalCalendars == {cals \in CalendarLists : \A k \in 1..Len(cals) : cals[k].id = k}

CreateFormSubmit ==
    \E cals \in ModalCalendars, hasTitle \in BOOLEAN, picked \in 0..MaxCalendars :
        /\ CanPick(cals, hasTitle, 1, picked)
        /\ LET calendarIndex == submittedIndex(1, picked)
           IN Converted("createForm",
                        [calendars |-> cals, picked |-> picked, calIdx |-> 0],
                        [calendarId |-> cals[calendarIndex].id,
                         call |-> "addEvent",
                         shown |-> shownOption(cals, calendarIndex).id])

EditFormSubmit ==
    \E cals \in ModalCalendars, calIdx \in 1..MaxCalendars, picked \in 0..MaxCalendars :
        /\ calIdx <= Len(cals)
        /\ CanPick(cals, TRUE, calIdx, picked)
        /\ LET calendarIndex == submittedIndex(calIdx, picked)
           IN Converted("editForm",
                        [calendars |-> cals, picked |-> picked, calIdx |-> calIdx],
                        [calendarId |-> IF calendarIndex # calIdx
                                        THEN cals[calendarIndex].id ELSE 0,
                         call |-> IF calendarIndex # calIdx
                                  THEN "moveEventToCalendar" ELSE "updateEventWithId",
                         shown |-> shownOption(cals, calendarIndex).id])

(* An event as the form receives it: every field holds a JavaScript value
   written as a string (an array as its literal), Undefined when the key is
   missing; custom holds the keys outside the standard fields. *)
RECURSIVE join(_)
join(items) ==
    IF Len(items) = 0 THEN ""
    ELSE IF Len(items) = 1 THEN items[1]
    ELSE items[1] \o "," \o join(Tail(items))

ArrayLiteral(items) == "[" \o join(items) \o "]"

ArrayChoices == {<<>>, <<"M">>, <<"M", "W">>, <<"2024-01-08">>, <<"2024-01-08", "2024-01-15">>}

(* String(value): an array becomes its items joined by commas. *)
String(value) ==
    IF \E items \in ArrayChoices : ArrayLiteral(items) = value
    THEN join(CHOOSE items \in ArrayChoices : ArrayLiteral(items) = value)
    ELSE value

Or(value, other) == IF Truthy(value) THEN value ELSE other

MetadataKeys == {"folder", "box"}
MetadataValues == {Undefined, "x", "5"}

NoFields ==
    [title |-> Undefined, type |-> Undefined, date |-> Undefined, daysOfWeek |-> Undefined,
     startRecur |-> Undefined, endRecur |-> Undefined, allDay |-> TRUE,
     startTime |-> Undefined, startDate |-> Undefined, rrule |-> Undefined,
     skipDates |-> Undefined, custom |-> [key \in MetadataKeys |-> Undefined],
     completed |-> Undefined, endDate |-> Undefined, endTime |-> Undefined]

SingleEvents ==
    {[NoFields EXCEPT !.type = "single", !.date = "2024-01-01", !.endDate = endDate,
                      !.completed = completed] :
        endDate \in {Undefined, Null, "2024-01-03"}, completed \in CompletedValues}

RecurringEvents ==
    {[NoFields EXCEPT !.type = "recurring", !.daysOfWeek = ArrayLiteral(daysOfWeek),
                      !.startRecur = startRecur, !.endRecur = endRecur] :
        daysOfWeek \in {<<"M">>, <<"M", "W">>},
        startRecur \in {Undefined, "2024-01-01"},
        endRecur \in {Undefined, "2024-01-31"}}

RRuleEvents ==
    {[NoFields EXCEPT !.type = "rrule", !.rrule = "FREQ=WEEKLY", !.startDate = "2024-01-01",
                      !.skipDates = ArrayLiteral(skipDates)] :
        skipDates \in {<<>>, <<"2024-01-08">>, <<"2024-01-08", "2024-01-15">>}}

StoredEvents ==
    {[[e EXCEPT !.title = "a", !.custom = custom]
        EXCEPT !.allDay = (startTime = Undefined), !.startTime = startTime,
               !.endTime = IF startTime = Undefined THEN Undefined ELSE endTime] :
        e \in SingleEvents \cup RecurringEvents \cup RRuleEvents,
        custom \in [MetadataKeys -> MetadataValues],
        startTime \in {Undefined, "09:00"}, endTime \in {Null, "10:00"}}

getInitialMetadata(initialEvent) ==
    LET keep(value) == IF value = Undefined \/ value = Null THEN Undefined
                       ELSE String(value)
    IN [startDate |-> keep(initialEvent.startDate),
        rrule |-> keep(initialEvent.rrule),
        skipDates |-> keep(initialEvent.skipDates),
        custom |-> [key \in MetadataKeys |-> keep(initialEvent.custom[key])]]

useState(initialEvent) ==
    [title |-> Or(initialEvent.title, ""),
     date |-> IF initialEvent.type = "single" THEN initialEvent.date
              ELSE IF initialEvent.type = "recurring" THEN initialEvent.startRecur
              ELSE IF initialEvent.type = "rrule" THEN initialEvent.startDate
              ELSE "",
     daysOfWeek |-> IF initialEvent.type = "recurring"
                    THEN Or(initialEvent.daysOfWeek, ArrayLiteral(<<>>))
                    ELSE ArrayLiteral(<<>>),
     endRecur |-> "",
     isTask |-> EditEvent(initialEvent).isTask,
     allDay |-> initialEvent.allDay,
     startTime |-> Or(initialEvent.startTime, ""),
     complete |-> IF initialEvent.type = "single" /\ initialEvent.completed # Null
                     /\ initialEvent.completed # Undefined
                  THEN initialEvent.completed ELSE "false",
     endDate |-> IF initialEvent.type = "single" THEN initialEvent.endDate ELSE Undefined,
     endTime |-> Or(initialEvent.endTime, ""),
     isRecurring |-> initialEvent.type = "recurring",
     metadata |-> getInitialMetadata(initialEvent)]

handleSubmit(state) ==
    [title |-> state.title,
     type |-> IF state.isRecurring THEN "recurring" ELSE "single",
     date |-> IF state.isRecurring THEN Undefined ELSE Or(state.date, ""),
     daysOfWeek |-> IF state.isRecurring THEN state.daysOfWeek ELSE Undefined,
     startRecur |-> IF state.isRecurring THEN Or(state.date, Undefined) ELSE Undefined,
     endRecur |-> IF state.isRecurring THEN Or(state.endRecur, Undefined) ELSE Undefined,
     allDay |-> state.allDay,
     startTime |-> IF state.allDay THEN Undefined ELSE Or(state.startTime, ""),
     startDate |-> state.metadata.startDate,
     rrule |-> state.metadata.rrule,
     skipDates |-> state.metadata.skipDates,
     custom |-> state.metadata.custom,
     completed |-> IF state.isRecurring THEN Undefined
                   ELSE IF state.isTask THEN state.complete ELSE Null,
     endDate |-> IF state.isRecurring THEN Undefined ELSE Or(state.endDate, Null),
     endTime |-> IF state.allDay THEN Undefined ELSE state.endTime]

SaveUnchanged ==
    \E initialEvent \in StoredEvents :
        Converted("saveUnchanged", [event |-> initialEvent],
                  [submitted |-> handleSubmit(useState(initialEvent))])

NextForm ==
    \/ CreateFormSubmit
    \/ EditFormSubmit
    \/ SaveUnchanged

SpecForm == Init /\ [][NextForm]_vars

(* ---- the linear view ---- *)
ViewDays == {3, 4, 17}
FilterTypes == {"folder", "box"}
FilterValues == {"x", "y"}
MaxFilters == 2

(* The events the calendar holds: e1 takes one day, e2 two. *)
fcGetEventById(eventId) ==
    [title |-> eventId, start |-> 3, end |-> IF eventId = "e1" THEN NoDay ELSE 5,
     allDay |-> TRUE]

componentDidUpdate(v) ==
    [v EXCEPT !.linearViewActiveFilter =
                  [type |-> v.state.filterType, values |-> v.state.filters],
              !.linearViewFilterState =
                  [type |-> v.state.filterType, values |-> v.state.filters]]

setState(v, state) == componentDidUpdate([v EXCEPT !.state = state])

Mount ==
    /\ ~view.mounted
    /\ view' = [view EXCEPT !.mounted = TRUE,
                            !.state = constructor(view.linearViewFilterState),
                            !.down = 0, !.calls = <<>>]
    /\ UNCHANGED <<files, store, pathIndex, nextId, task, ops, overlap, failed, last, result>>

Unmount ==
    /\ view.mounted
    /\ view' = [view EXCEPT !.mounted = FALSE, !.state = constructor(NoFilter),
                            !.down = 0, !.calls = <<>>]
    /\ UNCHANGED <<files, store, pathIndex, nextId, task, ops, overlap, failed, last, result>>

(* ---- its filter bar ---- *)
Includes(items, value) == \E k \in 1..Len(items) : items[k] = value

Without(items, value) == SelectSeq(items, LAMBDA f : f # value)

SetFilterType ==
    \E key \in FilterTypes :
        /\ view.mounted
        /\ view' = setState(view, [view.state EXCEPT !.filterType = key, !.filters = <<>>])
        /\ UNCHANGED <<files, store, pathIndex, nextId, task, ops, overlap, failed, last, result>>

AddFilter ==
    \E value \in FilterValues :
        /\ view.mounted
        /\ ~Includes(view.state.filters, value)
        /\ Len(view.state.filters) < MaxFilters
        /\ view' = setState(view, [view.state EXCEPT
                                      !.filters = Append(view.state.filters, value)])
        /\ UNCHANGED <<files, store, pathIndex, nextId, task, ops, overlap, failed, last, result>>

RemoveFilter ==
    \E value \in FilterValues :
        /\ view.mounted
        /\ Includes(view.state.filters, value)
        /\ view' = setState(view, [view.state EXCEPT
                                      !.filters = Without(view.state.filters, value)])
        /\ UNCHANGED <<files, store, pathIndex, nextId, task, ops, overlap, failed, last, result>>

ClearFilters ==
    /\ view.mounted
    /\ Len(view.state.filters) > 1
    /\ view' = setState(view, [view.state EXCEPT !.filters = <<>>])
    /\ UNCHANGED <<files, store, pathIndex, nextId, task, ops, overlap, failed, last, result>>

(* ---- the create modal opened from any view ---- *)
PartialEvents == [FilterTypes -> {Undefined, "p"}]

launchCreateModal(partialEvent, activeFilter) ==
    IF activeFilter.type # "" /\ Len(activeFilter.values) > 0
    THEN [partialEvent EXCEPT ![activeFilter.type] =
                                  activeFilter.values[Len(activeFilter.values)]]
    ELSE partialEvent

Observed(op, input, output) ==
    /\ result' = [op |-> op, input |-> input, output |-> output]
    /\ UNCHANGED <<files, store, pathIndex, nextId, task, ops, overlap, failed, last>>

LaunchCreateModal ==
    \E partialEvent \in PartialEvents :
        /\ Observed("launchCreateModal",
                    [filterType |-> view.state.filterType, filters |-> view.state.filters,
                     mounted |-> view.mounted, partialEvent |-> partialEvent],
                    [initialEvent |-> launchCreateModal(partialEvent,
                                                        view.linearViewActiveFilter)])
        /\ UNCHANGED view

(* ---- dragging an event onto a day ---- *)
handleDragStart(v, eventId, date) ==
    setState(v, [v.state EXCEPT
                    !.draggedEventId = eventId,
                    !.draggedEventOriginalDate = date,
                    !.dragPreview = [eventId |-> eventId, targetDate |-> date,
                                     sourceDate |-> date]])

(* What handleDrop leaves in the state, and the events it hands to the
   modify handler. *)
handleDrop(v, date) ==
    LET st == v.state
        daysDiff == date - st.draggedEventOriginalDate
        halfCleared == [st EXCEPT !.draggedEventId = "",
                                  !.draggedEventOriginalDate = NoDay,
                                  !.dragOverDate = NoDay]
        cleared == [halfCleared EXCEPT !.dragPreview = NoPreview]
    IN IF st.draggedEventId = "" \/ st.draggedEventOriginalDate = NoDay
       THEN [view |-> v, submitted |-> <<>>]
       ELSE IF daysDiff = 0
       THEN [view |-> setState(v, halfCleared), submitted |-> <<>>]
       ELSE IF ~v.fc
       THEN [view |-> setState(v, cleared), submitted |-> <<>>]
       ELSE IF st.draggedEventId \notin v.fcEvents
       THEN [view |-> setState(v, cleared), submitted |-> <<>>]
       ELSE [view |-> setState(v, cleared),
             submitted |-> IF v.fcModifyEvent
                           THEN <<newEventData(fcGetEventById(st.draggedEventId), daysDiff)>>
                           ELSE <<>>]

DragStart ==
    \E eventId \in ViewEventIds :
        /\ view.mounted
        /\ view.down = 0
        /\ view' = handleDragStart(view, eventId, fcGetEventById(eventId).start)
        /\ Observed("handleDragStart", [fc |-> view.fc, state |-> view.state,
                                        date |-> fcGetEventById(eventId).start],
                    [submitted |-> <<>>])

Drop ==
    \E date \in ViewDays :
        /\ view.mounted
        /\ view.down = 0
        /\ view' = handleDrop(view, date).view
        /\ Observed("handleDrop",
                    [fc |-> view.fc, state |-> view.state, date |-> date],
                    [submitted |-> handleDrop(view, date).submitted])

(* ---- selecting a range of days with the mouse ---- *)
handleSelectionStart(v, date) ==
    setState(v, [v.state EXCEPT !.selectionStart = date, !.selectionCurrent = date,
                                !.isSelecting = TRUE])

handleSelectionMove(v, date) ==
    IF v.state.isSelecting
    THEN setState(v, [v.state EXCEPT !.selectionCurrent = date])
    ELSE v

select(v, by, start, end) ==
    [v EXCEPT !.calls = Append(v.calls, [start |-> start, end |-> end, by |-> by])]

handleSelectionEnd(v, date) ==
    LET st == v.state
        endDate == IF st.selectionCurrent # NoDay THEN st.selectionCurrent ELSE date
        start == IF st.selectionStart < endDate THEN st.selectionStart ELSE endDate
        end == IF st.selectionStart < endDate THEN endDate ELSE st.selectionStart
        called == IF v.fc THEN select(v, "handleSelectionEnd", start, end + 1) ELSE v
    IN IF ~st.isSelecting \/ st.selectionStart = NoDay THEN v
       ELSE setState(called, [st EXCEPT !.selectionStart = NoDay,
                                        !.selectionCurrent = NoDay,
                                        !.isSelecting = FALSE])

handleDayClick(v, date) ==
    IF v.fc THEN select(v, "handleDayClick", date, date + 1) ELSE v

handleGlobalMouseUp(v) ==
    IF v.state.isSelecting
    THEN setState(v, [v.state EXCEPT !.selectionStart = NoDay,
                                     !.selectionCurrent = NoDay,
                                     !.isSelecting = FALSE])
    ELSE v

Fresh(v) == [v EXCEPT !.calls = <<>>]

(* A day cell carries each handler twice: once set on the element and once
   given to React, which runs after it. *)
onmousedown(v, date) == handleSelectionStart(handleSelectionStart(v, date), date)

onmouseenter(v, date) == handleSelectionMove(handleSelectionMove(v, date), date)

onmouseup(v, date) ==
    handleGlobalMouseUp(handleSelectionEnd(handleSelectionEnd(v, date), date))

(* The click that follows a press and a release on the same cell; onCell: on
   the cell itself and not on the day number inside it. *)
onClick(v, date, onCell) == IF onCell THEN handleDayClick(v, date) ELSE v

Gesture(op, input) ==
    Observed(op, input, [submitted |-> <<>>])

MouseDown ==
    \E date \in ViewDays \cup {Outside} :
        /\ view.mounted
        /\ view.down = 0
        /\ view.state.draggedEventId = ""
        /\ view' = [(IF date = Outside THEN Fresh(view) ELSE onmousedown(Fresh(view), date))
                       EXCEPT !.down = date]
        /\ Gesture("mouseDown", [fc |-> view.fc, state |-> view.state, date |-> date])

MouseEnter ==
    \E date \in ViewDays :
        /\ view.mounted
        /\ view.down # 0
        /\ view' = onmouseenter(Fresh(view), date)
        /\ Gesture("mouseEnter", [fc |-> view.fc, state |-> view.state, date |-> date])

MouseUp ==
    \E date \in ViewDays \cup {Outside}, onCell \in BOOLEAN :
        /\ view.mounted
        /\ view.down # 0
        /\ date = Outside => ~onCell
        /\ LET released == IF date = Outside THEN handleGlobalMouseUp(Fresh(view))
                           ELSE onmouseup(Fresh(view), date)
               clicked == IF date # Outside /\ date = view.down
                          THEN onClick(released, date, onCell) ELSE released
           IN view' = [clicked EXCEPT !.down = 0]
        /\ Gesture("mouseUp", [fc |-> view.fc, state |-> view.state, date |-> date])

MouseLeave ==
    /\ view.mounted
    /\ view' = [handleGlobalMouseUp(Fresh(view)) EXCEPT !.down = 0]
    /\ Gesture("mouseLeave", [fc |-> view.fc, state |-> view.state, date |-> Outside])

(* The filter bar of the view, and the create modal opened while the view is
   displayed or after it was closed. *)
NextFilter ==
    \/ Mount
    \/ Unmount
    \/ SetFilterType
    \/ AddFilter
    \/ RemoveFilter
    \/ ClearFilters
    \/ LaunchCreateModal

SpecFilter == Init /\ [][NextFilter]_vars

(* The drag and selection gestures on the displayed view. *)
NextView ==
    \/ Mount
    \/ DragStart
    \/ Drop
    \/ MouseDown
    \/ MouseEnter
    \/ MouseUp
    \/ MouseLeave

SpecView == InitView /\ [][NextView]_vars

(* ---- one month row of the linear view ---- *)
(* A month is the weekday of its first day (1 Monday .. 7 Sunday) and its
   number of days; a day is counted from the first of the month (0), so that
   negative days lie in the month before; an event takes place on the days
   from start up to, not including, end. *)
MaxEvents == 3
totalColumns == 37
NoCell == -1
Months ==
    {[weekday |-> 1, daysInMonth |-> 31], [weekday |-> 6, daysInMonth |-> 31],
     [weekday |-> 7, daysInMonth |-> 28], [weekday |-> 3, daysInMonth |-> 30],
     [weekday |-> 4, daysInMonth |-> 29], [weekday |-> 6, daysInMonth |-> 30]}

MonthEventChoices(month) ==
    {[id |-> id, start |-> start, end |-> start + duration] :
        id \in {"e"}, start \in {-2, 0, 1, month.daysInMonth - 1}, duration \in {2, 3}}

EventLists(month) ==
    UNION {[1..n -> MonthEventChoices(month)] : n \in 1..MaxEvents}

firstDayOfWeek(month) == month.weekday % 7

(* The day each of the columns holds, NoCell for an empty cell. *)
cells(month) ==
    [i \in 0..(totalColumns - 1) |->
        IF i - firstDayOfWeek(month) >= 0 /\ i - firstDayOfWeek(month) < month.daysInMonth
        THEN i - firstDayOfWeek(month) ELSE NoCell]

eventOverlapsMonth(month, event) ==
    event.start <= month.daysInMonth - 1 /\ event.end >= 0

monthEvents(month, events) ==
    SelectSeq(events, LAMBDA event : eventOverlapsMonth(month, event))

(* Array.prototype.sort by start: stable. *)
RECURSIVE insertSorted(_, _)
insertSorted(sorted, event) ==
    IF sorted = <<>> THEN <<event>>
    ELSE IF sorted[Len(sorted)].start <= event.start THEN Append(sorted, event)
    ELSE Append(insertSorted(SubSeq(sorted, 1, Len(sorted) - 1), event),
                sorted[Len(sorted)])

RECURSIVE sortedMonthEvents(_)
sortedMonthEvents(events) ==
    IF events = <<>> THEN <<>>
    ELSE insertSorted(sortedMonthEvents(SubSeq(events, 1, Len(events) - 1)),
                      events[Len(events)])

laneIsFreeInclusive(lane, startCell) == lane.endCell <= startCell

laneIsFree(lane, startCell) == lane.endCell < startCell

(* lanes.findIndex: the first free lane, counted from 0, or -1. *)
findLane(lanes, startCell) ==
    IF \E k \in 1..Len(lanes) : laneIsFree(lanes[k], startCell)
    THEN (CHOOSE k \in 1..Len(lanes) :
            /\ laneIsFree(lanes[k], startCell)
            /\ \A j \in 1..(k - 1) : ~laneIsFree(lanes[j], startCell)) - 1
    ELSE -1

(* One round of the forEach: the positions and the lanes after the event. *)
placeEvent(month, acc, event) ==
    LET clippedStart == Max(event.start, 0)
        clippedEnd == Min(event.end, month.daysInMonth)
        daysFromMonthStart == Max(0, clippedStart)
        startCell == firstDayOfWeek(month) + daysFromMonthStart
        eventDuration == clippedEnd - clippedStart
        cellsToSpan == Min(eventDuration, totalColumns - startCell)
        endCell == startCell + cellsToSpan - 1
        found == findLane(acc.lanes, startCell)
        assignedLane == IF found = -1 THEN Len(acc.lanes) ELSE found
    IN IF startCell >= totalColumns THEN acc
       ELSE [lanes |-> IF found = -1 THEN Append(acc.lanes, [endCell |-> endCell])
                       ELSE [acc.lanes EXCEPT ![found + 1] = [endCell |-> endCell]],
             positions |-> Append(acc.positions,
                                  [event |-> event, lane |-> assignedLane,
                                   startCell |-> startCell,
                                   cellsToSpan |-> cellsToSpan])]

RECURSIVE placeEvents(_, _)
placeEvents(month, events) ==
    IF events = <<>> THEN [lanes |-> <<>>, positions |-> <<>>]
    ELSE placeEvent(month, placeEvents(month, SubSeq(events, 1, Len(events) - 1)),
                    events[Len(events)])

eventsWithPositions(month, events) ==
    placeEvents(month, sortedMonthEvents(monthEvents(month, events))).positions

LinearMonth ==
    \E month \in Months :
        \E events \in EventLists(month) :
            Converted("LinearMonth", [events |-> events, month |-> month],
                      [cells |-> cells(month),
                       positions |-> eventsWithPositions(month, events)])

NextMonth ==
    \/ LinearMonth

SpecMonth == Init /\ [][NextMonth]_vars

(* ---- what the claims are stated over ---- *)
Mutations == {"add", "update", "move", "delete"}

Returned(op) == last.phase = "return" /\ last.op = op

(* The event a file holds, as a scan of the file reads it. *)
EventInFile(path) ==
    [title |-> IF files[path].title = "" THEN basename(path) ELSE files[path].title]

EntryMatchesFile(i) ==
    /\ files[store[i].location.path].exists
    /\ files[store[i].location.path].valid
    /\ store[i].event = EventInFile(store[i].location.path)

Consistent ==
    \A i \in DOMAIN store :
        store[i].location # NullLocation =>
            store[i].location.path \in Paths /\ EntryMatchesFile(i)

(* C1: when the backing-store step of a mutation fails (a missing file, a failed
   rewrite or delete, an unsupported operation), the call leaves both index maps
   as they were and returns an error to its caller. *)
C1_FailedWriteLeavesIndex ==
    (last.phase = "return" /\ last.op \in Mutations /\ last.backingFailed)
        => (~last.changed /\ ~last.ok /\ last.err # "")

C1_Witness ==
    /\ Returned("update")
    /\ last.cal = ShelveId
    /\ last.backingFailed
    /\ last.err = "IOError"
    /\ last.entryBefore # NoEntry

(* C2: the index changes only in the continuation that follows a successful
   backing write; an update through the shelve calendar invokes the cache
   callback at most once, and not at all when the file is missing or the
   rewrite failed. *)
C2_WriteThrough ==
    /\ (last.op \in Mutations /\ last.changed)
           => (last.phase = "return" /\ ~last.backingFailed)
    /\ (Returned("update") /\ last.cal = ShelveId)
           => (last.callbacks <= 1 /\ (last.backingFailed => last.callbacks = 0))

C2_Witness ==
    /\ Returned("update")
    /\ last.cal = ShelveId
    /\ last.callbacks = 1
    /\ last.changed

(* C3: once two interleaved calls on the same event or file have both returned
   (neither with an error), every entry of the index that has a location matches an existing file: the
   file exists and holds the entry's event. *)
C3_NoDivergence == (AllIdle /\ overlap /\ ~failed) => Consistent

(* C4: at most one write (rewrite, delete, create or rename) is in flight
   against a path at any time. *)
InFlight(path) == {t \in Tasks : task[t].pc = "io" /\ task[t].loc.path = path}

C4_WritesSerialized == \A path \in Paths : Cardinality(InFlight(path)) <= 1

(* C5: after the notification for a path has been processed, an entry of the
   shelve calendar located at that path remains only if the file exists and its
   shelve property still equals the calendar's value. *)
C5_RescanFaithful ==
    (last.op = "fileUpdated")
        => \A i \in DOMAIN store :
              (store[i].calendarId = ShelveId /\ store[i].location.path = last.path)
                  => (files[last.path].exists /\ files[last.path].shelve = ShelveValue)

(* C6: a notification for a path that no registered calendar contains (no file
   there, or a file outside the note directory whose shelve property is not the
   shelve calendar's value) leaves both index maps unchanged. *)
NoCalendarContains(path) ==
    /\ path \notin NoteDir
    /\ ~(files[path].exists /\ files[path].shelve = ShelveValue)

C6_InvalidationScoped ==
    (last.op = "fileUpdated" /\ NoCalendarContains(last.path)) => ~last.changed

C6_Witness ==
    /\ last.op = "fileUpdated"
    /\ NoCalendarContains(last.path)
    /\ pathIndex[last.path] # {}

(* C7 as stated: addEvent on any editable calendar, the shelve calendar included,
   returns an id under which the event is stored in that calendar (unless the
   vault refuses the write). *)
VaultRefused == last.err \in {"IOError", "FileExists"}

Stored(id, event, calendarId) ==
    /\ HasEvent(id)
    /\ getEventById(id) = event
    /\ ~getInfoForEditableEvent(id).throws
    /\ getInfoForEditableEvent(id).calendar = calendarId

C7_AddToAnyEditable ==
    (Returned("add") /\ IsEditableCalendar(last.cal) /\ ~VaultRefused)
        => (last.ok /\ Stored(last.id, last.event, last.cal))

(* C7 amended: addEvent on an editable calendar other than a shelve calendar
   returns, unless the vault refuses the write, an id under which the event is
   stored in that calendar; on a shelve calendar addEvent always fails and
   leaves the index unchanged. *)
C7_AddToCreatableCalendar ==
    Returned("add") =>
        /\ (last.cal \in CalendarIds /\ CalType(last.cal) = "shelve")
               => (~last.ok /\ ~last.changed)
        /\ (IsEditableCalendar(last.cal) /\ CalType(last.cal) # "shelve" /\ ~VaultRefused)
               => last.ok
        /\ last.ok => Stored(last.id, last.event, last.cal)

C7_Witness == Returned("add") /\ last.ok /\ last.cal = "note"

(* C8: after a successful deleteEvent(i) the id is in neither index map and in
   no group of getAllEvents, and the delete removes the entry only when the
   calendar's delete of the file succeeded. *)
C8_DeleteRemoves ==
    /\ (Returned("delete") /\ last.ok)
           => /\ ~HasEvent(last.id)
              /\ \A c \in CalendarIds : last.id \notin getAllEvents[c]
              /\ \A path \in Paths : last.id \notin pathIndex[path]
    /\ (Returned("delete") /\ last.changed) => (last.ok /\ ~last.backingFailed)

C8_Witness ==
    /\ Returned("delete")
    /\ last.ok
    /\ last.entryBefore.calendarId = ShelveId

(* C9: after a successful moveEventToCalendar(i, C2) the event is still stored
   under i with the content it had, and its calendar is C2. *)
C9_MovePreserves ==
    (Returned("move") /\ last.ok)
        => Stored(last.id, last.entryBefore.event, last.cal)

C9_Witness ==
    /\ Returned("move")
    /\ last.ok
    /\ last.entryBefore.calendarId = ShelveId
    /\ last.cal = "note"

(* C10: updateEventWithId(i, v) with v the value already stored for i leaves the
   entry as it was: same event, calendar and location under the same id. *)
C10_UpdateSameValue ==
    (Returned("update") /\ last.entryBefore # NoEntry
                        /\ last.event = last.entryBefore.event)
        => EntryOf(store, last.id) = last.entryBefore

C10_Witness ==
    /\ Returned("update")
    /\ last.ok
    /\ last.cal = ShelveId
    /\ last.event = last.entryBefore.event
    /\ last.callbacks = 1

(* ---- the error kinds the cache reports ---- *)
ErrorKind(err) ==
    CASE err \in {"NotFound", "FileMissing", "FileNotFound"} -> "NotFound"
      [] err \in {"UnsupportedOperation", "ShelveCreateUnsupported",
                  "ShelveMoveUnsupported", "ShelveInline"} -> "UnsupportedOperation"
      [] err \in {"IOError", "FileExists"} -> "IOError"
      [] OTHER -> "none"

(* A call that was rejected: an error of the given kind, nothing written, no id
   assigned, both index maps as they were. *)
Rejected(kind) ==
    /\ ~last.ok
    /\ ErrorKind(last.err) = kind
    /\ ~last.wrote
    /\ ~last.changed
    /\ last.id = 0
    /\ nextId = last.nextIdBefore

(* C11: addEvent fails with NotFound when the calendar id is not registered and
   with UnsupportedOperation when the calendar is read-only or is a shelve
   calendar; in each case nothing is written to the vault, no id is assigned and
   the index is unchanged. *)
C11_AddRejected ==
    Returned("add") =>
        /\ (last.cal \notin CalendarIds) => Rejected("NotFound")
        /\ (last.cal \in CalendarIds
               /\ (~IsEditableCalendar(last.cal) \/ CalType(last.cal) = "shelve"))
              => Rejected("UnsupportedOperation")

C11_Witness ==
    /\ Returned("add")
    /\ last.cal = ShelveId
    /\ last.err = "ShelveCreateUnsupported"
    /\ last.nextIdBefore > 1

(* C12: updateEventWithId, moveEventToCalendar and deleteEvent on an event owned
   by a read-only calendar fail, change neither index map and write nothing to
   the vault; getInfoForEditableEvent fails for an id that is unknown or owned
   by a read-only calendar, and so does opening the edit modal on it. *)
OwnedByReadOnly(entry) ==
    entry.calendarId \in CalendarIds /\ ~IsEditableCalendar(entry.calendarId)

C12_ReadOnlyRejects ==
    /\ (last.phase = "return" /\ last.op \in {"update", "move", "delete"}
            /\ OwnedByReadOnly(last.entryBefore))
           => (~last.ok /\ last.err # "" /\ ~last.changed /\ ~last.wrote)
    /\ \A id \in Ids :
           (~HasEvent(id) \/ OwnedByReadOnly(store[id]))
               => (getInfoForEditableEvent(id).throws /\ launchEditModal(id).throws)

C12_Witness ==
    /\ last.phase = "return"
    /\ last.op = "move"
    /\ OwnedByReadOnly(last.entryBefore)
    /\ last.cal = "note"
    /\ last.err = "UnsupportedOperation"

(* C13: event ids are unique across the whole index: every id an entry holds was
   handed out by the id counter and is below it, so the next id assigned (by
   addEvent or by a rescan) is held by no entry of any calendar; an id returned
   by addEvent was held by no entry before, and no id is in the groups of two
   calendars. *)
C13_IdsUnique ==
    /\ \A i \in DOMAIN store : i >= 1 /\ i < nextId
    /\ (Returned("add") /\ last.ok) => last.entryBefore = NoEntry
    /\ \A c, d \in CalendarIds : c # d => getAllEvents[c] \cap getAllEvents[d] = {}

C13_Witness ==
    /\ last.op = "fileUpdated"
    /\ last.changed
    /\ ~HasEvent(1)
    /\ HasEvent(nextId - 1)
    /\ store[nextId - 1].calendarId = ShelveId

(* C14: the two index maps agree: an id is in the id set of path p exactly when
   the id -> entry map holds an entry for it located in file p; hence no id is
   under two paths and no path set holds an id without an entry. *)
IndexedIds == DOMAIN store \cup UNION {pathIndex[p] : p \in Paths}

C14_MapsConsistent ==
    \A p \in Paths, i \in IndexedIds :
        (i \in pathIndex[p]) <=> (i \in DOMAIN store /\ store[i].location.path = p)

C14_Witness ==
    /\ Returned("delete")
    /\ last.ok
    /\ last.entryBefore.location.path = "n1"
    /\ pathIndex["n1"] = {}
    /\ pathIndex["p1"] # {}

(* C15: a rescan of a changed path patches the index, for each calendar that
   contains the path, by diff against the ids that calendar had at the path: if
   the file no longer yields an event they are removed; if it does, an id there
   before keeps its id and gets the file's content and location, and with no id
   there before the event is inserted under an id no entry held; entries
   located at other paths are untouched. *)
Yields(c, path) ==
    /\ files[path].exists
    /\ files[path].valid
    /\ IF CalType(c) = "shelve" THEN files[path].shelve = ShelveValue ELSE path \in NoteDir

Scanned(c, path) ==
    [event |-> EventInFile(path), calendarId |-> c,
     location |-> [path |-> path, lineNumber |-> UndefinedLine]]

RescanPatches(c, path) ==
    LET old == {i \in pathIndex[path] : store[i].calendarId = c}
        now == {i \in DOMAIN store' : store'[i].calendarId = c
                                       /\ store'[i].location.path = path}
    IN IF ~Yields(c, path) THEN now = {}
       ELSE IF old # {}
       THEN now = old /\ \A i \in old : store'[i] = Scanned(c, path)
       ELSE /\ Cardinality(now) = 1
            /\ \A i \in now : /\ i \notin DOMAIN store
                               /\ i >= nextId
                               /\ store'[i] = Scanned(c, path)

RescanLeavesOthers(path) ==
    /\ \A i \in DOMAIN store :
           store[i].location.path # path
               => (i \in DOMAIN store' /\ store'[i] = store[i])
    /\ \A p \in Paths \ {path} : pathIndex'[p] = pathIndex[p]

C15_RescanDiff ==
    [][(last'.op = "fileUpdated")
          => /\ \A c \in CalendarIds :
                   CalContainsPath(c, last'.path) => RescanPatches(c, last'.path)
             /\ RescanLeavesOthers(last'.path)]_vars

C15_Witness ==
    /\ last.op = "fileUpdated"
    /\ last.changed
    /\ last.path = "p1"
    /\ HasEvent(1)
    /\ store[1] = [event |-> [title |-> basename("p1")], calendarId |-> ShelveId,
                    location |-> [path |-> "p1", lineNumber |-> UndefinedLine]]

(* C16: an operation the shelve calendar cannot support fails with an error and
   writes or deletes no file: createEvent and move for every input,
   getNewLocation and deleteEvent for every location that carries a line
   number. *)
Refused == result.output.throws /\ result.output.err # "" /\ ~result.output.wrote

C16_UnsupportedFails ==
    /\ (result.op \in {"createEvent", "move"}) => Refused
    /\ (result.op \in {"getNewLocation", "deleteEvent"}
           /\ result.input.location.lineNumber # UndefinedLine) => Refused

C16_Witness ==
    /\ result.op = "deleteEvent"
    /\ result.input.location.lineNumber # UndefinedLine
    /\ containsPath(result.input.location.path)

(* C17: membership in the shelve calendar is by value, not by place:
   containsPath(path) is true exactly when a file exists at path and its shelve
   property equals the calendar's value, in the note directory or outside it;
   getEvents yields whole-file events only (no line number), at most one per
   file, and only for files for which containsPath is true. *)
C17_ValueMembership ==
    /\ \A path \in Paths :
           containsPath(path) <=> (files[path].exists /\ files[path].shelve = ShelveValue)
    /\ \A j \in 1..Len(getEvents) :
           /\ getEvents[j].location.lineNumber = UndefinedLine
           /\ containsPath(getEvents[j].location.path)
           /\ \A k \in 1..Len(getEvents) :
                  getEvents[k].location.path = getEvents[j].location.path => k = j

C17_Witness ==
    /\ result.op = "getEvents"
    /\ Len(result.output.events) = 2
    /\ result.output.events = getEvents
    /\ \E j \in 1..2 : result.output.events[j].location.path \in NoteDir
    /\ \E j \in 1..2 : result.output.events[j].location.path \notin NoteDir

(* C18: expanding a recurring event over [from, to] yields exactly the dates of
   [max(from, startRecur), min(to, endRecur)], both ends included and an absent
   bound not limiting, whose weekday code is in daysOfWeek, in strictly
   ascending order. *)
RECURSIVE Ascending(_)
Ascending(S) ==
    IF S = {} THEN <<>>
    ELSE LET m == CHOOSE x \in S : \A y \in S : x <= y
         IN <<m>> \o Ascending(S \ {m})

WeekdayCode(date) == DAYS[(date % 7) + 1]

OccurrenceDates(event, from, to) ==
    LET lo == IF event.startRecur = NoDate THEN from ELSE Max(from, event.startRecur)
        hi == IF event.endRecur = NoDate THEN to ELSE Min(to, event.endRecur)
    IN {d \in lo..hi : \E k \in 1..Len(event.daysOfWeek) :
                          event.daysOfWeek[k] = WeekdayCode(d)}

C18_ExpandInclusive ==
    (result.op = "expandRecurring")
        => result.output.dates
              = Ascending(OccurrenceDates(result.input.event, result.input.from,
                                          result.input.to))

(* C19: for an rrule event with at most one occurrence a day, the skip dates
   remove exactly the occurrences whose date is a skipDates entry and no
   occurrence on another date; one exclusion instant is produced per skipDates
   entry. *)
RuleDates(event, from, to) ==
    {d \in from..to : d >= event.startDate
                       /\ (d - event.startDate) % event.rrule = 0}

SkippedDates(event) == {event.skipDates[k] : k \in 1..Len(event.skipDates)}

C19_SkipDatesExact ==
    (result.op = "expandRRule" /\ ~result.output.null)
        => /\ {result.output.occurrences[k].date :
                   k \in 1..Len(result.output.occurrences)}
                = RuleDates(result.input.event, result.input.from, result.input.to)
                     \ SkippedDates(result.input.event)
           /\ Len(result.output.exdate) = Len(result.input.event.skipDates)

(* C20: a single event is a task exactly when its completed field is present
   (false or a timestamp), whatever else it holds: in the rendered event, in the
   task checkbox and in the edit form; a task with completed false is shown
   unchecked, one with a timestamp checked, and an event without completed is
   never shown as a task. *)
Present(completed) == completed \in {"false", Timestamp}

C20_TaskByPresence ==
    (result.op = "renderSingle" /\ ~result.output.null)
        => LET completed == result.input.event.completed
               out == result.output
           IN /\ Truthy(out.extendedProps.isTask) <=> Present(completed)
              /\ out.rendered.checkbox <=> Present(completed)
              /\ out.rendered.checkbox
                     => (out.rendered.checked <=> completed = Timestamp)
              /\ out.form.isTask <=> Present(completed)
              /\ out.form.taskStatus
                     => (out.form.checked <=> completed = Timestamp)

(* What does hold: for an event with no custom property named isTask or
   taskCompleted, the three places decide by the presence of completed. *)
NoReservedKey(event) ==
    ~Truthy(event.custom["isTask"]) /\ event.custom["isTask"] # "false"
    /\ ~Truthy(event.custom["taskCompleted"]) /\ event.custom["taskCompleted"] # "false"

TaskByPresenceWithoutReservedKeys ==
    (result.op = "renderSingle" /\ NoReservedKey(result.input.event))
        => C20_TaskByPresence

(* C21: the calendar id a modal passes to addEvent or moveEventToCalendar is
   the id of the calendar whose option the dropdown shows as selected: the
   picked option, or the default one when nothing was picked. *)
PassesCalendar ==
    /\ result.op \in {"createForm", "editForm"}
    /\ result.output.call \in {"addEvent", "moveEventToCalendar"}

C21_SubmitsShownCalendar ==
    PassesCalendar => result.output.calendarId = result.output.shown

(* Holds for the lists in which no calendar precedes a selectable one
   unselectably: the options are then the first calendars of the list. *)
OptionsArePrefix ==
    \A k \in 1..Len(selectOptions(result.input.calendars)) :
        selectOptions(result.input.calendars)[k].id = k

SubmitsShownCalendarWhenOptionsArePrefix ==
    (PassesCalendar /\ OptionsArePrefix /\ result.output.shown # 0)
        => result.output.calendarId = result.output.shown

(* C22: saving the edit form without a change submits the stored event again:
   the same type, the same value in every standard field (a missing value
   staying missing) and the same value under every custom key. *)
Missing(value) == value \in {Undefined, Null, ""}

SameValue(a, b) == a = b \/ (Missing(a) /\ Missing(b))

StandardFields(e) ==
    <<e.date, e.endDate, e.startTime, e.endTime, e.completed, e.daysOfWeek,
      e.startRecur, e.endRecur, e.rrule, e.startDate, e.skipDates>>

SameEvent(a, b) ==
    /\ a.type = b.type
    /\ a.title = b.title
    /\ a.allDay = b.allDay
    /\ \A k \in 1..Len(StandardFields(a)) :
          SameValue(StandardFields(a)[k], StandardFields(b)[k])
    /\ \A key \in MetadataKeys : SameValue(a.custom[key], b.custom[key])

C22_SaveUnchangedSubmitsOriginal ==
    result.op = "saveUnchanged" => SameEvent(result.input.event, result.output.submitted)

(* What does hold: a single event is submitted as it was, and so is a recurring
   event that has no endRecur. *)
SaveUnchangedKeepsSingle ==
    (/\ result.op = "saveUnchanged"
     /\ \/ result.input.event.type = "single"
        \/ /\ result.input.event.type = "recurring"
           /\ result.input.event.endRecur = Undefined)
        => SameEvent(result.input.event, result.output.submitted)

(* C23: the event produced for a drag or resize keeps the completed field and
   every custom metadata key of the event that was moved. *)
Dragged == result.op \in {"eventDrop", "linearDrop"}

KeepsCustom(before, after) ==
    \A key \in DOMAIN getCustomProperties(before) :
        /\ key \in DOMAIN after.custom
        /\ after.custom[key] = before.custom[key]

C23_DragKeepsMetadata ==
    Dragged =>
        /\ SameValue(result.output.event.completed, result.input.event.completed)
        /\ KeepsCustom(result.input.event, result.output.event)

(* What does hold: the grid views keep the completed field of an event that
   has no custom key named taskCompleted, and an event without custom
   metadata and without completed comes out of either view as it was. *)
GridDragKeepsCompleted ==
    (/\ result.op = "eventDrop"
     /\ "taskCompleted" \notin DOMAIN getCustomProperties(result.input.event))
        => SameValue(result.output.event.completed, result.input.event.completed)

DragKeepsPlainEvent ==
    (/\ Dragged
     /\ DOMAIN getCustomProperties(result.input.event) = {}
     /\ Missing(result.input.event.completed))
        => /\ SameValue(result.output.event.completed, result.input.event.completed)
           /\ KeepsCustom(result.input.event, result.output.event)

(* C24: the submit of the edit modal starts its update only after the move it
   asked for has returned without an error, a move of the modal that failed is
   followed by nothing, the step after the move is the update of the same event
   with the submitted data, and the modal asks for a move only towards another
   calendar than the one the event is in. *)
MoveReturns == last' # last /\ last'.op = "move" /\ last'.via = "editModal" /\ last'.phase = "return"

MoveThenUpdate ==
    /\ (task["t1"].pc # "chain" /\ task'["t1"].pc = "chain") => (MoveReturns /\ last'.ok)
    /\ (MoveReturns /\ ~last'.ok) => task'["t1"].pc = "idle"
    /\ (task["t1"].pc = "chain" /\ task'["t1"] # task["t1"]) =>
          /\ last'.op = "update"
          /\ last'.via = "editModal"
          /\ last'.phase = "start" => (task'["t1"].id = task["t1"].id /\ task'["t1"].event = task["t1"].data)
          /\ last'.phase = "return" => (last'.id = task["t1"].id /\ last'.event = task["t1"].data)
    /\ (MoveReturns /\ task["t1"].pc = "idle" /\ last'.id \in DOMAIN store) =>
          last'.cal # store[last'.id].calendarId
    /\ (task["t1"].pc = "idle" /\ task'["t1"].op = "move" /\ task'["t1"].via = "editModal") =>
          task'["t1"].cal # store[task'["t1"].id].calendarId

C24_MoveBeforeUpdate == [][MoveThenUpdate]_vars

C24_Witness ==
    /\ last.op = "update" /\ last.via = "editModal" /\ last.phase = "return"
    /\ last.entryBefore.calendarId = ShelveId
    /\ last.entryBefore.location.path \in NoteDir

(* C25: a drag or resize whose modification did not succeed (the handler
   resolved to false, or failed with an error) is reverted exactly once, one
   that succeeded is never reverted, and a task checkbox whose toggle did not
   succeed shows its previous state again. *)
C25_RevertOnFailure ==
    /\ result.op = "modifyEventCallback" =>
          result.output.reverts = (IF result.input.outcome = "true" THEN 0 ELSE 1)
    /\ (result.op = "checkboxClick" /\ result.input.outcome # "true") =>
          result.output.checked = result.input.checked

(* What does hold: the same, for a handler that resolves. *)
RevertWhenResolved ==
    (/\ result.op \in {"modifyEventCallback", "checkboxClick"}
     /\ result.input.outcome # "throws") =>
        /\ result.op = "modifyEventCallback" =>
              result.output.reverts = (IF result.input.outcome = "true" THEN 0 ELSE 1)
        /\ result.op = "checkboxClick" =>
              result.output.checked =
                  (IF result.input.outcome = "true" THEN ~result.input.checked
                   ELSE result.input.checked)

(* C26: a drop of a dragged event on a day submits a modification exactly when
   the day differs from the day the drag started on; the submitted event starts
   that many days after the old start and lasts as many days as before; and
   after the drop none of draggedEventId, draggedEventOriginalDate,
   dragOverDate and dragPreview is left set. *)
Dropped == result.op = "handleDrop" /\ result.input.state.draggedEventId # ""

DaysDiff == result.input.date - result.input.state.draggedEventOriginalDate

OldEvent == fcGetEventById(result.input.state.draggedEventId)

DurationInDays(start, end) == IF end = NoDay THEN 1 ELSE end - start

SubmittedShifted ==
    result.output.submitted # <<>> =>
        /\ Len(result.output.submitted) = 1
        /\ result.output.submitted[1].date = OldEvent.start + DaysDiff
        /\ DurationInDays(result.output.submitted[1].date,
                          result.output.submitted[1].endDate)
             = DurationInDays(OldEvent.start, OldEvent.end)

C26_DropSubmitsAndClears ==
    Dropped =>
        /\ (result.output.submitted # <<>>) <=> (DaysDiff # 0)
        /\ SubmittedShifted
        /\ view.state.draggedEventId = ""
        /\ view.state.draggedEventOriginalDate = NoDay
        /\ view.state.dragOverDate = NoDay
        /\ view.state.dragPreview = NoPreview

(* What does hold: nothing is submitted for a zero offset, a modification is
   submitted for any other offset when the calendar, the event and the modify
   handler are there, it is shifted and as long as before, and the drop clears
   the dragged id, the original date and the drag-over date; the preview is
   cleared by every drop but the one with a zero offset. *)
DropSubmitsWhenItCan ==
    Dropped =>
        /\ result.output.submitted # <<>> => DaysDiff # 0
        /\ (/\ DaysDiff # 0
            /\ view.fc
            /\ result.input.state.draggedEventId \in view.fcEvents
            /\ view.fcModifyEvent) => result.output.submitted # <<>>
        /\ SubmittedShifted
        /\ view.state.draggedEventId = ""
        /\ view.state.draggedEventOriginalDate = NoDay
        /\ view.state.dragOverDate = NoDay
        /\ DaysDiff # 0 => view.state.dragPreview = NoPreview

(* C27: isSelecting holds exactly while selectionStart and selectionCurrent are
   both set; the start and the moves of a selection gesture make no select
   call and its end on a day cell makes exactly one, for the days from the earlier of its two ends up to the day
   after the later one, and has left the view idle; a release or a leave while
   idle makes no select call. *)
SelectingIffBothSet ==
    view.state.isSelecting <=>
        (view.state.selectionStart # NoDay /\ view.state.selectionCurrent # NoDay)

GestureEnded ==
    /\ result.op = "mouseUp"
    /\ result.input.date # Outside
    /\ result.input.state.isSelecting
    /\ result.input.fc

SelectedRange ==
    [start |-> Min(result.input.state.selectionStart, result.input.state.selectionCurrent),
     end |-> Max(result.input.state.selectionStart, result.input.state.selectionCurrent) + 1]

Ranges(calls) == [k \in 1..Len(calls) |-> [start |-> calls[k].start, end |-> calls[k].end]]

IdleRelease ==
    /\ result.op \in {"mouseUp", "mouseLeave"}
    /\ ~result.input.state.isSelecting

C27_OneSelectPerGesture ==
    /\ SelectingIffBothSet
    /\ result.op \in {"mouseDown", "mouseEnter"} => view.calls = <<>>
    /\ GestureEnded => (Ranges(view.calls) = <<SelectedRange>> /\ ~view.state.isSelecting)
    /\ IdleRelease => view.calls = <<>>

(* What does hold: the same, with the select calls of handleSelectionEnd alone;
   and every select call counted when the gesture ends on another cell than
   the one it started on. *)
BySelectionEnd(calls) == SelectSeq(calls, LAMBDA c : c.by = "handleSelectionEnd")

OneSelectBySelectionEnd ==
    /\ SelectingIffBothSet
    /\ result.op \in {"mouseDown", "mouseEnter"} => view.calls = <<>>
    /\ GestureEnded =>
          /\ Ranges(BySelectionEnd(view.calls)) = <<SelectedRange>>
          /\ ~view.state.isSelecting
          /\ result.input.date # result.input.state.selectionStart =>
                Ranges(view.calls) = <<SelectedRange>>
    /\ IdleRelease => view.calls = <<>>

(* C30: the create modal is handed the caller's event with the property named
   by the filter type set to the filter value added last exactly when a linear
   view is displayed and has a filter value; otherwise it is handed the
   caller's event as it is. *)
ModalLaunched == result.op = "launchCreateModal"

Prefilled ==
    [result.input.partialEvent EXCEPT
        ![result.input.filterType] = result.input.filters[Len(result.input.filters)]]

C30_PrefillIffFiltered ==
    ModalLaunched =>
        result.output.initialEvent =
            (IF result.input.mounted /\ Len(result.input.filters) > 0
             THEN Prefilled ELSE result.input.partialEvent)

(* What does hold: the same while a linear view is displayed. *)
PrefillWhileDisplayed ==
    (ModalLaunched /\ result.input.mounted) =>
        result.output.initialEvent =
            (IF Len(result.input.filters) > 0 THEN Prefilled
             ELSE result.input.partialEvent)

(* C28: in a month row two events of the same lane never share a column, and
   each event is given the lowest lane whose last event ends before the
   event's first column, a new lane only when there is none. *)
MonthRendered == result.op = "LinearMonth"

Columns(position) ==
    {i \in 0..(totalColumns - 1) :
        position.startCell <= i /\ i < position.startCell + position.cellsToSpan}

(* The last column of the latest of the first n positions in the lane, and
   whether there is one. *)
LaneUsed(positions, n, lane) == \E k \in 1..n : positions[k].lane = lane

LaneEnd(positions, n, lane) ==
    LET k == CHOOSE k \in 1..n :
                 /\ positions[k].lane = lane
                 /\ \A j \in (k + 1)..n : positions[j].lane # lane
    IN positions[k].startCell + positions[k].cellsToSpan - 1

LanesUsed(positions, n) == {positions[k].lane : k \in 1..n}

Fits(positions, n, lane) ==
    LaneUsed(positions, n - 1, lane)
        /\ LaneEnd(positions, n - 1, lane) < positions[n].startCell

LowestFreeLane(positions) ==
    \A n \in 1..Len(positions) :
        IF \E lane \in LanesUsed(positions, n - 1) : Fits(positions, n, lane)
        THEN /\ Fits(positions, n, positions[n].lane)
             /\ \A lane \in LanesUsed(positions, n - 1) :
                   Fits(positions, n, lane) => positions[n].lane <= lane
        ELSE positions[n].lane = Cardinality(LanesUsed(positions, n - 1))

C28_LanesDoNotOverlap ==
    MonthRendered =>
        /\ \A k, j \in 1..Len(result.output.positions) :
              (k # j /\ result.output.positions[k].lane = result.output.positions[j].lane)
                  => Columns(result.output.positions[k])
                        \cap Columns(result.output.positions[j]) = {}
        /\ LowestFreeLane(result.output.positions)

C28_Witness ==
    /\ MonthRendered
    /\ Len(result.output.positions) = 3
    /\ result.output.positions[1].lane = 0
    /\ result.output.positions[2].lane = 1
    /\ result.output.positions[3].lane = 0
    /\ result.output.positions[1].cellsToSpan > 0
    /\ Columns(result.output.positions[1]) \cap Columns(result.output.positions[2]) # {}

(* C29: the columns of a month row hold each day of the month exactly once;
   every overlay in the row covers at least one column, and only columns that
   hold a day of the month on which its event takes place; and an event has an
   overlay in the row only if it takes place on a day of the month. *)
OneCellPerDay ==
    /\ firstDayOfWeek(result.input.month) + result.input.month.daysInMonth <= totalColumns
    /\ \A day \in 0..(result.input.month.daysInMonth - 1) :
          Cardinality({i \in DOMAIN result.output.cells : result.output.cells[i] = day}) = 1
    /\ \A i \in DOMAIN result.output.cells :
          result.output.cells[i] \in {NoCell} \cup 0..(result.input.month.daysInMonth - 1)

TakesPlaceOn(event, day) == event.start <= day /\ day < event.end

OverlayOnItsDays(position) ==
    \A i \in Columns(position) :
        /\ result.output.cells[i] # NoCell
        /\ TakesPlaceOn(position.event, result.output.cells[i])

InMonth(event) ==
    \E day \in 0..(result.input.month.daysInMonth - 1) : TakesPlaceOn(event, day)

C29_OverlaysWithinMonth ==
    MonthRendered =>
        /\ OneCellPerDay
        /\ \A k \in 1..Len(result.output.positions) :
              /\ result.output.positions[k].cellsToSpan >= 1
              /\ OverlayOnItsDays(result.output.positions[k])
              /\ InMonth(result.output.positions[k].event)

(* What does hold: the cells; no overlay covers a column outside its event's
   days in the month; and the overlay of an event that takes place in the
   month covers exactly those days. *)
OverlaysOfEventsInMonth ==
    MonthRendered =>
        /\ OneCellPerDay
        /\ \A k \in 1..Len(result.output.positions) :
              /\ OverlayOnItsDays(result.output.positions[k])
              /\ InMonth(result.output.positions[k].event) =>
                    {result.output.cells[i] : i \in Columns(result.output.positions[k])}
                        = {day \in 0..(result.input.month.daysInMonth - 1) :
                              TakesPlaceOn(result.output.positions[k].event, day)}

====
